---- MODULE Spec2Model ----
(***************************************************************************)
(* DlaPixy canvas editing engine: the pixel buffer, the pointer-driven     *)
(* tool state machine, selection, internal clipboard, floating block and   *)
(* undo history of App.tsx (the current App component, part_003 lines      *)
(* 1459-3235) together with the helpers of src/editor/utils.ts.            *)
(*                                                                         *)
(* Every React event handler is one atomic action: the handler reads the   *)
(* state of the last render (its closure) and the refs, and all its        *)
(* setState calls take effect together before the next event.              *)
(*                                                                         *)
(* A Uint8ClampedArray is modelled as a record [len, px]: len is its       *)
(* length in bytes and px maps the index of every pixel (4 bytes) that is  *)
(* not all-zero to its <<r, g, b, a>> bytes.  Pixels absent from px are    *)
(* <<0,0,0,0>>, so two arrays are equal exactly when the records are.      *)
(***************************************************************************)
EXTENDS Integers, Sequences, FiniteSets, TLC

\* ---------------------------------------------------------------- constants
DEFAULT_GRID_SPACING == 16
DEFAULT_CANVAS_SIZE == 256
MAX_UNDO == 40
MIN_CANVAS_SIZE == 8
MAX_CANVAS_SIZE == 1024
GRID_SPACING_OPTIONS == {8, 16, 32}

\* ------------------------------------------------------------------- bounds
\* Number of state-changing handler runs explored from the initial state.
MaxEvents == 4

\* The same count for the deeper editing session.
MaxEditEvents == 6

\* The same count for the long run of strokes: 45 press-release pairs, 40
\* undos and one undo more fit.
MaxUndoEvents == 131

\* The same count for the gesture that a load interrupts.
MaxStaleEvents == 6

\* The same count for the session around a canvas resize.
MaxResizeEvents == 6

\* A fill press is explored only when the fillable mask has at most this many cells.
MaxFillCells == 64

\* Handler runs explored by the specification of file loads.
MaxLoadEvents == 5

\* Handler runs explored by the specification of fills.
MaxFillEvents == 3

\* Handler runs explored by the specification of pencil lines.
MaxLineEvents == 2
MaxSaveEvents == 5
MaxCancelEvents == 5

\* ------------------------------------------------------------ basic values
\* `T | null` values: Null, or a one-element tuple holding the value.
Null == <<>>
Some(v) == <<v>>
Val(o) == o[1]

Min(a, b) == IF a < b THEN a ELSE b
Max(a, b) == IF a > b THEN a ELSE b
Abs(a) == IF a < 0 THEN -a ELSE a

Cell(x, y) == [x |-> x, y |-> y]
Rect(x, y, w, h) == [x |-> x, y |-> y, w |-> w, h |-> h]

Transparent == <<0, 0, 0, 0>>

\* ------------------------------------------------------------ typed arrays
\* new Uint8ClampedArray(n): n zero bytes.
NewArray(n) == [len |-> n, px |-> [i \in {} |-> Transparent]]

\* Number of whole pixels an array holds.
PxCount(buf) == buf.len \div 4

\* The four bytes at byte offset 4*i; a read past the end of a typed array
\* yields undefined, which a typed-array store turns into 0.
ReadPx(buf, i) == IF i \in DOMAIN buf.px THEN buf.px[i] ELSE Transparent

\* TRUE when pixel index i lies inside the array (a store there takes effect).
InArray(buf, i) == i >= 0 /\ i < PxCount(buf)

\* The array after the stores `writes` (pixel index -> bytes); stores outside
\* the array are ignored, as typed arrays do.
Overlay(buf, writes) ==
  LET D == {i \in DOMAIN writes : InArray(buf, i)}
      keep == (DOMAIN buf.px \ D) \cup {i \in D : writes[i] # Transparent}
  IN  [len |-> buf.len,
       px |-> [i \in keep |-> IF i \in D THEN writes[i] ELSE buf.px[i]]]

\* ------------------------------------------------------ src/editor/utils.ts
clampCanvasSize(size, minCanvasSize, maxCanvasSize) ==
  Max(minCanvasSize, Min(maxCanvasSize, size))

createEmptyPixels(size) == NewArray(size * size * 4)

clonePixels(buf) == buf

\* RasterWalk with `else if` for the second test: a turn steps in x or in y,
\* never in both.
RECURSIVE RasterWalkElseIf(_, _, _, _, _, _, _, _, _)
RasterWalkElseIf(cx, cy, x1, y1, dx, dy, sx, sy, err) ==
  IF cx = x1 /\ cy = y1
  THEN <<Cell(cx, cy)>>
  ELSE LET e2 == err * 2
           stepX == e2 > -dy
           stepY == ~stepX /\ e2 < dx
           err2 == IF stepX THEN err - dy ELSE IF stepY THEN err + dx ELSE err
           cx1 == IF stepX THEN cx + sx ELSE cx
           cy1 == IF stepY THEN cy + sy ELSE cy
       IN  <<Cell(cx, cy)>> \o RasterWalkElseIf(cx1, cy1, x1, y1, dx, dy, sx, sy, err2)

\* The `while (true)` loop of rasterLinePoints from the cell (cx, cy) on.
RECURSIVE RasterWalk(_, _, _, _, _, _, _, _, _)
RasterWalk(cx, cy, x1, y1, dx, dy, sx, sy, err) ==
  IF cx = x1 /\ cy = y1
  THEN <<Cell(cx, cy)>>
  ELSE LET e2 == err * 2
           stepX == e2 > -dy
           err1 == IF stepX THEN err - dy ELSE err
           cx1 == IF stepX THEN cx + sx ELSE cx
           stepY == e2 < dx
           err2 == IF stepY THEN err1 + dx ELSE err1
           cy1 == IF stepY THEN cy + sy ELSE cy
       IN  <<Cell(cx, cy)>> \o RasterWalk(cx1, cy1, x1, y1, dx, dy, sx, sy, err2)

rasterLinePoints(x0, y0, x1, y1) ==
  LET dx == Abs(x1 - x0)
      dy == Abs(y1 - y0)
      sx == IF x0 < x1 THEN 1 ELSE -1
      sy == IF y0 < y1 THEN 1 ELSE -1
  IN  RasterWalk(x0, y0, x1, y1, dx, dy, sx, sy, dx - dy)

pointInSelection(point, sel) ==
  IF sel = Null
  THEN FALSE
  ELSE /\ point.x >= Val(sel).x
       /\ point.y >= Val(sel).y
       /\ point.x < Val(sel).x + Val(sel).w
       /\ point.y < Val(sel).y + Val(sel).h

cloneSelection(sel) == sel

\* Pixel index of cell (x, y) on a canvas of side n: idx / 4 in the source.
PixelIndex(x, y, n) == y * n + x

\* The (x, y) offsets of a width x height block, in loop order (y outer).
BlockOffsets(width, height) ==
  {Cell(x, y) : x \in 0 .. width - 1, y \in 0 .. height - 1}

\* The offset the loops visit last among those in S.
LastVisited(S) ==
  CHOOSE o \in S : \A p \in S : p.y < o.y \/ (p.y = o.y /\ p.x <= o.x)

\* The block offset whose store to pixel index i is the one that remains.  A
\* block no wider than the canvas stores to each index at most once; a wider
\* one stores to some indices twice and the later store wins.
StoringOffset(i, size, blockWidth, blockHeight, destX, destY) ==
  IF blockWidth <= size
  THEN LET k == i - PixelIndex(destX, destY, size)
       IN  Cell(k % size, k \div size)
  ELSE LastVisited({o \in BlockOffsets(blockWidth, blockHeight) :
                      PixelIndex(destX + o.x, destY + o.y, size) = i})

blitBlockOnCanvas(basePixels, size, blockPixels, blockWidth, blockHeight, destX, destY) ==
  LET targets == {PixelIndex(destX + o.x, destY + o.y, size) :
                    o \in BlockOffsets(blockWidth, blockHeight)}
      from(i) == StoringOffset(i, size, blockWidth, blockHeight, destX, destY)
      writes == [i \in targets |->
                   ReadPx(blockPixels, from(i).y * blockWidth + from(i).x)]
  IN  Overlay(clonePixels(basePixels), writes)

\* --------------------------------------------------------- colours and text
\* A colour string '#rrggbb' is the tuple of its six hexadecimal digits.
DEFAULT_PALETTE ==
  << <<0, 0, 0, 0, 0, 0>>, <<15, 15, 15, 15, 15, 15>>, <<14, 15, 4, 4, 4, 4>>,
     <<2, 2, 12, 5, 5, 14>>, <<3, 11, 8, 2, 15, 6>>, <<15, 5, 9, 14, 0, 11>>,
     <<10, 8, 5, 5, 15, 7>>, <<0, 14, 10, 5, 14, 9>> >>

\* colorBytes: Number.parseInt of the three digit pairs, base 16.
ColorBytes(hex) ==
  [r |-> 16 * hex[1] + hex[2], g |-> 16 * hex[3] + hex[4], b |-> 16 * hex[5] + hex[6]]

\* A text typed into the canvas-size field is a tuple of characters, each a
\* decimal digit 0..9 or the non-digit character -1.
IsDigit(ch) == ch >= 0 /\ ch <= 9

RECURSIVE DigitsValue(_, _)
DigitsValue(text, acc) ==
  IF text = <<>> \/ ~IsDigit(Head(text))
  THEN acc
  ELSE DigitsValue(Tail(text), 10 * acc + Head(text))

\* Number.parseInt(text, 10): the value of the leading digits, or Null for NaN.
ParseInt(text) ==
  IF text = <<>> \/ ~IsDigit(Head(text)) THEN Null ELSE Some(DigitsValue(text, 0))

RECURSIVE ToText(_)
\* String(n) for a natural number n.
ToText(n) == IF n < 10 THEN <<n>> ELSE ToText(n \div 10) \o <<n % 10>>

\* -------------------------------------------------------------------- state
VARIABLES
  canvasSize,          \* useState canvasSize
  pendingCanvasSize,   \* useState pendingCanvasSize (text of the size field)
  gridSpacing,         \* useState gridSpacing
  pixels,              \* useState pixels
  selectedColor,       \* useState selectedColor
  tool,                \* useState tool
  selection,           \* useState selection
  hasUnsavedChanges,   \* useState hasUnsavedChanges
  drawState,           \* drawStateRef.current
  selectionClipboard,  \* selectionClipboardRef.current
  floatingPaste,       \* floatingPasteRef.current
  undoStack,           \* undoStackRef.current
  lastEvent,           \* the handler that ran last and the path it took
  hadFloat,            \* whether that handler found a floating block
  pointer,             \* the raw cell of that handler's mouse event, if it read one
  opened,              \* what the host answered to that handler's loadPng, if it ran one
  saveRequest,         \* the payload of the savePng call the host has not answered yet
  savedPixels,         \* the buffer of the last successful save or load, or of the start
  cancelled,           \* whether Escape cancelled a floating move in the gesture still held
  events               \* number of handler runs so far

vars ==
  <<canvasSize, pendingCanvasSize, gridSpacing, pixels, selectedColor, tool,
    selection, hasUnsavedChanges, drawState, selectionClipboard, floatingPaste,
    undoStack, lastEvent, hadFloat, pointer, opened, saveRequest, savedPixels, cancelled, events>>

Tools == {"pencil", "eraser", "fill", "select"}

IdleDrawState ==
  [active |-> FALSE, selectionStart |-> Null, selectionMoved |-> FALSE,
   clearSelectionOnMouseUp |-> FALSE, lastDrawCell |-> Null,
   moveStartCell |-> Null, moveStartOrigin |-> Null]

Init ==
  /\ canvasSize = DEFAULT_CANVAS_SIZE
  /\ pendingCanvasSize = ToText(DEFAULT_CANVAS_SIZE)
  /\ gridSpacing = DEFAULT_GRID_SPACING
  /\ pixels = createEmptyPixels(DEFAULT_CANVAS_SIZE)
  /\ selectedColor = DEFAULT_PALETTE[1]
  /\ tool = "pencil"
  /\ selection = Null
  /\ hasUnsavedChanges = FALSE
  /\ drawState = IdleDrawState
  /\ selectionClipboard = Null
  /\ floatingPaste = Null
  /\ undoStack = <<>>
  /\ lastEvent = "start"
  /\ hadFloat = FALSE
  /\ pointer = Null
  /\ opened = Null
  /\ saveRequest = Null
  /\ savedPixels = pixels
  /\ cancelled = FALSE
  /\ events = 0

\* ------------------------------------------------------- helpers of App.tsx
\* pushUndo whose overflow drops the newest snapshot (pop for shift).
pushUndoDropsNewest(stack, buf) ==
  LET pushed == Append(stack, clonePixels(buf))
  IN  IF Len(pushed) > MAX_UNDO THEN SubSeq(pushed, 1, MAX_UNDO) ELSE pushed

\* undoStackRef.current after pushUndo() with `buf` the rendered pixels.
pushUndo(stack, buf) ==
  LET pushed == Append(stack, clonePixels(buf))
  IN  IF Len(pushed) > MAX_UNDO THEN Tail(pushed) ELSE pushed

\* The rgba bytes the pencil and the fill store.
PaintBytes(hex) ==
  <<ColorBytes(hex).r, ColorBytes(hex).g, ColorBytes(hex).b, 255>>

\* The points of a stroke segment that are not skipped by the selection test.
StrokePoints(from, to, sel) ==
  LET points == rasterLinePoints(from.x, from.y, to.x, to.y)
  IN  {points[k] : k \in {j \in 1 .. Len(points) :
                            sel = Null \/ pointInSelection(points[j], sel)}}

\* `changed` of applyStrokeSegment: some visited pixel did not pass the
\* "already erased" / "already this colour" test.
StrokeChanged(prev, from, to, erase, sel, size, hex) ==
  \E p \in StrokePoints(from, to, sel) :
    LET i == PixelIndex(p.x, p.y, size)
    IN  IF erase
        THEN ~InArray(prev, i) \/ ReadPx(prev, i)[4] # 0
        ELSE ~InArray(prev, i) \/ ReadPx(prev, i) # PaintBytes(hex)

\* The pixels state after applyStrokeSegment(from, to, erase).
applyStrokeSegment(prev, from, to, erase, sel, size, hex) ==
  LET pts == StrokePoints(from, to, sel)
      hit == {PixelIndex(p.x, p.y, size) : p \in pts}
      stored == IF erase
                THEN {i \in hit : ReadPx(prev, i)[4] # 0}
                ELSE hit
  IN  Overlay(prev, [i \in stored |-> IF erase THEN Transparent ELSE PaintBytes(hex)])

\* FillPushes without the fourth `if`: the cell below is never pushed.
FillPushesWithoutDown(node, sel, size) ==
  LET ok(n) == sel = Null \/ pointInSelection(n, sel)
      left == Cell(node.x - 1, node.y)
      right == Cell(node.x + 1, node.y)
      up == Cell(node.x, node.y - 1)
  IN  (IF node.x > 0 /\ ok(left) THEN <<left>> ELSE <<>>) \o
      (IF node.x + 1 < size /\ ok(right) THEN <<right>> ELSE <<>>) \o
      (IF node.y > 0 /\ ok(up) THEN <<up>> ELSE <<>>)

\* The neighbours createFloodFillResult pushes for a filled node, in the order
\* of the four `if`s: left, right, up, down.
FillPushes(node, sel, size) ==
  LET ok(n) == sel = Null \/ pointInSelection(n, sel)
      left == Cell(node.x - 1, node.y)
      right == Cell(node.x + 1, node.y)
      up == Cell(node.x, node.y - 1)
      down == Cell(node.x, node.y + 1)
  IN  (IF node.x > 0 /\ ok(left) THEN <<left>> ELSE <<>>) \o
      (IF node.x + 1 < size /\ ok(right) THEN <<right>> ELSE <<>>) \o
      (IF node.y > 0 /\ ok(up) THEN <<up>> ELSE <<>>) \o
      (IF node.y + 1 < size /\ ok(down) THEN <<down>> ELSE <<>>)

\* One turn of the `while (stack.length > 0)` loop on [stack, next, changed]:
\* pops the last node, skips it when it is outside the selection or no longer
\* has the target colour, else stores the replacement and pushes the neighbours.
FillStep(st, target, replacement, sel, size) ==
  LET node == st.stack[Len(st.stack)]
      rest == SubSeq(st.stack, 1, Len(st.stack) - 1)
      idx == PixelIndex(node.x, node.y, size)
  IN  IF sel # Null /\ ~pointInSelection(node, sel)
      THEN [st EXCEPT !.stack = rest]
      ELSE IF ~InArray(st.next, idx) \/ ReadPx(st.next, idx) # target
      THEN [st EXCEPT !.stack = rest]
      ELSE [stack |-> rest \o FillPushes(node, sel, size),
            next |-> Overlay(st.next, [i \in {idx} |-> replacement]),
            changed |-> TRUE]

\* The loop: up to n turns, stopping when the stack is empty.  The turns are
\* split in halves so that a long loop does not nest deeply.
RECURSIVE FillLoop(_, _, _, _, _, _)
FillLoop(st, n, target, replacement, sel, size) ==
  IF n = 0 \/ st.stack = <<>>
  THEN st
  ELSE IF n = 1
  THEN FillStep(st, target, replacement, sel, size)
  ELSE FillLoop(FillLoop(st, n \div 2, target, replacement, sel, size),
                n - n \div 2, target, replacement, sel, size)

\* Turns after which the stack is empty: a cell is filled at most once and
\* pushes at most four nodes, and only cells under the mask are filled.
FillTurns(sel, size) ==
  4 * (IF sel = Null THEN size * size ELSE Abs(Val(sel).w * Val(sel).h)) + 1

\* createFloodFillResult without the early return for a start pixel that
\* already has the replacement colour.
createFloodFillResultNoColourTest(source, start, sel, size, hex) ==
  LET target == ReadPx(source, PixelIndex(start.x, start.y, size))
      replacement == PaintBytes(hex)
      loop == FillLoop([stack |-> <<start>>, next |-> clonePixels(source),
                        changed |-> FALSE],
                       FillTurns(sel, size), target, replacement, sel, size)
  IN  IF sel # Null /\ ~pointInSelection(start, sel)
      THEN Null
      ELSE IF loop.changed THEN Some(loop.next) ELSE Null

\* createFloodFillResult(source, start): Null, or Some(the filled pixels).
createFloodFillResult(source, start, sel, size, hex) ==
  LET target == ReadPx(source, PixelIndex(start.x, start.y, size))
      replacement == PaintBytes(hex)
      loop == FillLoop([stack |-> <<start>>, next |-> clonePixels(source),
                        changed |-> FALSE],
                       FillTurns(sel, size), target, replacement, sel, size)
  IN  IF sel # Null /\ ~pointInSelection(start, sel)
      THEN Null
      ELSE IF target = replacement
      THEN Null
      ELSE IF loop.changed THEN Some(loop.next) ELSE Null

\* getCellFromEvent for a pointer over raw cell `at`.
getCellFromEvent(at, size) ==
  IF at.x < 0 \/ at.y < 0 \/ at.x >= size \/ at.y >= size THEN Null ELSE Some(at)

normalizeSelection(sx, sy, ex, ey) ==
  Some(Rect(Min(sx, ex), Min(sy, ey), Abs(ex - sx) + 1, Abs(ey - sy) + 1))

resolveSingleTileSelection(cell, spacing, size) ==
  LET startX == (cell.x \div spacing) * spacing
      startY == (cell.y \div spacing) * spacing
  IN  Some(Rect(startX, startY, Min(spacing, size - startX), Min(spacing, size - startY)))

\* drawStateRef.current after clearFloatingPaste().
ClearMoveState(ds) ==
  [ds EXCEPT !.moveStartCell = Null, !.moveStartOrigin = Null]

\* ------------------------------------------------------- floating block ops
\* clearFloatingPaste that leaves floatingPasteRef as it is.
keepFloatingPaste == floatingPaste

\* floatingPasteRef.current = null (clearFloatingPaste); the move fields of
\* drawStateRef are reset by ClearMoveState.
clearFloatingPaste == Null

\* finalizeFloatingPaste without setHasUnsavedChanges(true).
finalizeFloatingPasteSilently ==
  IF floatingPaste = Null
  THEN /\ lastEvent' = "enter:none"
       /\ UNCHANGED <<canvasSize, pendingCanvasSize, gridSpacing, pixels, selectedColor,
                      tool, selection, hasUnsavedChanges, drawState, selectionClipboard,
                      floatingPaste, undoStack>>
  ELSE /\ floatingPaste' = Null
       /\ drawState' = ClearMoveState(drawState)
       /\ lastEvent' = "enter:finalize"
       /\ UNCHANGED <<canvasSize, pendingCanvasSize, gridSpacing, pixels, selectedColor,
                      tool, selection, hasUnsavedChanges, selectionClipboard, undoStack>>

\* finalizeFloatingPaste(): Enter.
finalizeFloatingPaste ==
  IF floatingPaste = Null
  THEN /\ lastEvent' = "enter:none"
       /\ UNCHANGED <<canvasSize, pendingCanvasSize, gridSpacing, pixels, selectedColor,
                      tool, selection, hasUnsavedChanges, drawState, selectionClipboard,
                      floatingPaste, undoStack>>
  ELSE /\ floatingPaste' = clearFloatingPaste
       /\ drawState' = ClearMoveState(drawState)
       /\ hasUnsavedChanges' = TRUE
       /\ lastEvent' = "enter:finalize"
       /\ UNCHANGED <<canvasSize, pendingCanvasSize, gridSpacing, pixels, selectedColor,
                      tool, selection, selectionClipboard, undoStack>>

\* CancelRestore reading the block's base instead of its restore snapshot.
CancelRestoreFromBase(floating) ==
  [pixels |-> clonePixels(floating.basePixels),
   selection |-> cloneSelection(floating.restoreSelection),
   tool |-> floating.restoreTool]

\* What cancelFloatingPaste() hands to setPixels, setSelection and setTool.
CancelRestore(floating) ==
  [pixels |-> clonePixels(floating.restorePixels),
   selection |-> cloneSelection(floating.restoreSelection),
   tool |-> floating.restoreTool]

\* cancelFloatingPaste that also takes the block's snapshot off the history.
cancelFloatingPastePopsUndo ==
  /\ floatingPaste # Null
  /\ pixels' = CancelRestore(Val(floatingPaste)).pixels
  /\ selection' = CancelRestore(Val(floatingPaste)).selection
  /\ tool' = CancelRestore(Val(floatingPaste)).tool
  /\ floatingPaste' = clearFloatingPaste
  /\ drawState' = ClearMoveState(drawState)
  /\ undoStack' = IF undoStack = <<>> THEN undoStack
                  ELSE SubSeq(undoStack, 1, Len(undoStack) - 1)
  /\ lastEvent' = "escape:cancel"
  /\ UNCHANGED <<canvasSize, pendingCanvasSize, gridSpacing, selectedColor,
                 hasUnsavedChanges, selectionClipboard>>

\* cancelFloatingPaste(), called with a floating block present.
cancelFloatingPaste ==
  /\ floatingPaste # Null
  /\ pixels' = CancelRestore(Val(floatingPaste)).pixels
  /\ selection' = CancelRestore(Val(floatingPaste)).selection
  /\ tool' = CancelRestore(Val(floatingPaste)).tool
  /\ floatingPaste' = clearFloatingPaste
  /\ drawState' = ClearMoveState(drawState)
  /\ lastEvent' = "escape:cancel"
  /\ UNCHANGED <<canvasSize, pendingCanvasSize, gridSpacing, selectedColor,
                 hasUnsavedChanges, selectionClipboard, undoStack>>

\* ------------------------------------------------------------- onMouseDown
\* The selection's pixels copied into an array of `len` bytes by the loops
\* `for y < sel.h, for x < sel.w: block[y * sel.w + x] = canvas[...]`.
BlockPixels(buf, sel, size, len) ==
  LET offs == BlockOffsets(sel.w, sel.h)
      src(o) == PixelIndex(sel.x + o.x, sel.y + o.y, size)
  IN  Overlay(NewArray(len),
              [j \in {o.y * sel.w + o.x : o \in offs} |->
                 ReadPx(buf, src(Cell(j % sel.w, j \div sel.w)))])

\* The block the lift copies out of the selection: selection.w * selection.h
\* pixels read from the canvas.
LiftedPixels(buf, sel, size) == BlockPixels(buf, sel, size, sel.w * sel.h * 4)

\* The canvas with the selection's footprint zeroed.
ErasedFootprint(buf, sel, size) ==
  Overlay(clonePixels(buf),
          [i \in {PixelIndex(sel.x + o.x, sel.y + o.y, size) :
                    o \in BlockOffsets(sel.w, sel.h)} |-> Transparent])

\* Branch 1: continue dragging an already-floating block.
\* MouseDownContinueFloat that starts the drag as a fresh lift does.
MouseDownContinueFloatPushes(cell) ==
  /\ drawState' = [active |-> TRUE, selectionStart |-> Null, selectionMoved |-> FALSE,
                   clearSelectionOnMouseUp |-> FALSE, lastDrawCell |-> Null,
                   moveStartCell |-> Some(cell),
                   moveStartOrigin |-> Some(Cell(Val(floatingPaste).x, Val(floatingPaste).y))]
  /\ undoStack' = pushUndo(undoStack, pixels)
  /\ floatingPaste' = Some([Val(floatingPaste) EXCEPT !.restorePixels = clonePixels(pixels),
                                                       !.restoreSelection = cloneSelection(selection)])
  /\ lastEvent' = "down:continue"
  /\ UNCHANGED <<canvasSize, pendingCanvasSize, gridSpacing, pixels, selectedColor, tool,
                 selection, hasUnsavedChanges, selectionClipboard>>

MouseDownContinueFloat(cell) ==
  /\ drawState' = [active |-> TRUE, selectionStart |-> Null, selectionMoved |-> FALSE,
                   clearSelectionOnMouseUp |-> FALSE, lastDrawCell |-> Null,
                   moveStartCell |-> Some(cell),
                   moveStartOrigin |-> Some(Cell(Val(floatingPaste).x, Val(floatingPaste).y))]
  /\ lastEvent' = "down:continue"
  /\ UNCHANGED <<canvasSize, pendingCanvasSize, gridSpacing, pixels, selectedColor, tool,
                 selection, hasUnsavedChanges, selectionClipboard, floatingPaste, undoStack>>

\* The floating block the lift stores in floatingPasteRef.
LiftedFloat(buf, sel, size, curTool) ==
  [x |-> sel.x, y |-> sel.y, width |-> sel.w, height |-> sel.h,
   pixels |-> LiftedPixels(buf, sel, size),
   basePixels |-> ErasedFootprint(buf, sel, size),
   restorePixels |-> clonePixels(buf),
   restoreSelection |-> cloneSelection(Some(sel)),
   restoreTool |-> curTool]

\* Branch 2: dragging the selection converts it to a floating block.
MouseDownLift(cell) ==
  LET sel == Val(selection)
      float == LiftedFloat(pixels, sel, canvasSize, tool)
  IN  /\ undoStack' = pushUndo(undoStack, pixels)
      /\ pixels' = blitBlockOnCanvas(float.basePixels, canvasSize, float.pixels,
                                     sel.w, sel.h, sel.x, sel.y)
      /\ floatingPaste' = Some(float)
      /\ drawState' = [active |-> TRUE, selectionStart |-> Null, selectionMoved |-> FALSE,
                       clearSelectionOnMouseUp |-> FALSE, lastDrawCell |-> Null,
                       moveStartCell |-> Some(cell),
                       moveStartOrigin |-> Some(Cell(sel.x, sel.y))]
      /\ lastEvent' = "down:lift"
      /\ UNCHANGED <<canvasSize, pendingCanvasSize, gridSpacing, selectedColor, tool,
                     selection, hasUnsavedChanges, selectionClipboard>>

\* The fill branch with pushUndo() moved out of `if (filled)`.
MouseDownFillAlwaysPushes(cell) ==
  LET filled == createFloodFillResult(pixels, cell, selection, canvasSize, selectedColor)
  IN  /\ undoStack' = pushUndo(undoStack, pixels)
      /\ IF filled # Null
         THEN /\ pixels' = Val(filled)
              /\ hasUnsavedChanges' = TRUE
              /\ lastEvent' = "down:fill"
         ELSE /\ lastEvent' = "down:fillNone"
              /\ UNCHANGED <<pixels, hasUnsavedChanges>>
      /\ floatingPaste' = clearFloatingPaste
      /\ drawState' = IdleDrawState
      /\ UNCHANGED <<canvasSize, pendingCanvasSize, gridSpacing, selectedColor, tool,
                     selection, selectionClipboard>>

\* Branch 3: the fill tool acts on mouse down.
MouseDownFill(cell) ==
  LET filled == createFloodFillResult(pixels, cell, selection, canvasSize, selectedColor)
  IN  /\ IF filled # Null
         THEN /\ undoStack' = pushUndo(undoStack, pixels)
              /\ pixels' = Val(filled)
              /\ hasUnsavedChanges' = TRUE
              /\ lastEvent' = "down:fill"
         ELSE /\ lastEvent' = "down:fillNone"
              /\ UNCHANGED <<undoStack, pixels, hasUnsavedChanges>>
      /\ floatingPaste' = clearFloatingPaste
      /\ drawState' = IdleDrawState
      /\ UNCHANGED <<canvasSize, pendingCanvasSize, gridSpacing, selectedColor, tool,
                     selection, selectionClipboard>>

\* MouseDownSelect that cancels a floating block with restore, as Escape does.
MouseDownSelectRestores(cell) ==
  LET shouldClearOnClick ==
        selection # Null /\ ~pointInSelection(cell, selection) /\ clearFloatingPaste = Null
  IN  /\ floatingPaste' = clearFloatingPaste
      /\ undoStack' = pushUndo(undoStack, pixels)
      /\ drawState' = [active |-> TRUE, selectionStart |-> Some(cell),
                       selectionMoved |-> FALSE,
                       clearSelectionOnMouseUp |-> shouldClearOnClick,
                       lastDrawCell |-> Null, moveStartCell |-> Null,
                       moveStartOrigin |-> Null]
      /\ selection' = IF shouldClearOnClick THEN selection
                      ELSE Some(Rect(cell.x, cell.y, 1, 1))
      /\ pixels' = IF floatingPaste # Null
                   THEN CancelRestore(Val(floatingPaste)).pixels
                   ELSE pixels
      /\ lastEvent' = "down:select"
      /\ UNCHANGED <<canvasSize, pendingCanvasSize, gridSpacing, selectedColor,
                     tool, hasUnsavedChanges, selectionClipboard>>

\* Branch 4, select tool: start a rectangle, or arm clear-on-release.
MouseDownSelect(cell) ==
  LET shouldClearOnClick ==
        selection # Null /\ ~pointInSelection(cell, selection) /\ clearFloatingPaste = Null
  IN  /\ floatingPaste' = clearFloatingPaste
      /\ undoStack' = pushUndo(undoStack, pixels)
      /\ drawState' = [active |-> TRUE, selectionStart |-> Some(cell),
                       selectionMoved |-> FALSE,
                       clearSelectionOnMouseUp |-> shouldClearOnClick,
                       lastDrawCell |-> Null, moveStartCell |-> Null,
                       moveStartOrigin |-> Null]
      /\ selection' = IF shouldClearOnClick THEN selection
                      ELSE Some(Rect(cell.x, cell.y, 1, 1))
      /\ lastEvent' = "down:select"
      /\ UNCHANGED <<canvasSize, pendingCanvasSize, gridSpacing, pixels, selectedColor,
                     tool, hasUnsavedChanges, selectionClipboard>>

\* Branch 4, pencil and eraser: an initial dot.
MouseDownDraw(cell) ==
  LET erase == tool = "eraser"
  IN  /\ floatingPaste' = clearFloatingPaste
      /\ undoStack' = pushUndo(undoStack, pixels)
      /\ pixels' = applyStrokeSegment(pixels, cell, cell, erase, selection, canvasSize,
                                      selectedColor)
      /\ hasUnsavedChanges' =
           (hasUnsavedChanges \/
            StrokeChanged(pixels, cell, cell, erase, selection, canvasSize, selectedColor))
      /\ drawState' = [active |-> TRUE, selectionStart |-> drawState.selectionStart,
                       selectionMoved |-> FALSE, clearSelectionOnMouseUp |-> FALSE,
                       lastDrawCell |-> Some(cell), moveStartCell |-> Null,
                       moveStartOrigin |-> Null]
      /\ lastEvent' = "down:draw"
      /\ UNCHANGED <<canvasSize, pendingCanvasSize, gridSpacing, selectedColor, tool,
                     selection, selectionClipboard>>

\* onMouseDown with the pointer over raw cell `at` (Space not held).
onMouseDown(at) ==
  LET hit == getCellFromEvent(at, canvasSize)
  IN  IF hit = Null
      THEN /\ lastEvent' = "down:outside"
           /\ UNCHANGED <<canvasSize, pendingCanvasSize, gridSpacing, pixels,
                          selectedColor, tool, selection, hasUnsavedChanges, drawState,
                          selectionClipboard, floatingPaste, undoStack>>
      ELSE IF tool = "select" /\ floatingPaste # Null /\ pointInSelection(Val(hit), selection)
      THEN MouseDownContinueFloat(Val(hit))
      ELSE IF tool = "select" /\ selection # Null /\ pointInSelection(Val(hit), selection)
      THEN MouseDownLift(Val(hit))
      ELSE IF tool = "fill"
      THEN MouseDownFill(Val(hit))
      ELSE IF tool = "select"
      THEN MouseDownSelect(Val(hit))
      ELSE MouseDownDraw(Val(hit))

\* ------------------------------------------------------------- onMouseMove
\* Destination of the floating block for a pointer at `cell`.
MoveTarget(cell, ds, floating, size) ==
  LET dx == cell.x - Val(ds.moveStartCell).x
      dy == cell.y - Val(ds.moveStartCell).y
      maxX == Max(0, size - floating.width)
      maxY == Max(0, size - floating.height)
  IN  Cell(Max(0, Min(Val(ds.moveStartOrigin).x + dx, maxX)),
           Max(0, Min(Val(ds.moveStartOrigin).y + dy, maxY)))

\* Move the floating block with clamped bounds inside the canvas.
MouseMoveFloat(cell) ==
  LET floating == Val(floatingPaste)
      next == MoveTarget(cell, drawState, floating, canvasSize)
  IN  /\ IF next.x # floating.x \/ next.y # floating.y
         THEN /\ pixels' = blitBlockOnCanvas(floating.basePixels, canvasSize,
                                             floating.pixels, floating.width,
                                             floating.height, next.x, next.y)
              /\ selection' = Some(Rect(next.x, next.y, floating.width, floating.height))
              /\ floatingPaste' = Some([floating EXCEPT !.x = next.x, !.y = next.y])
         ELSE UNCHANGED <<pixels, selection, floatingPaste>>
      /\ lastEvent' = "move:float"
      /\ UNCHANGED <<canvasSize, pendingCanvasSize, gridSpacing, selectedColor, tool,
                     hasUnsavedChanges, drawState, selectionClipboard, undoStack>>

\* Selection drag updates the live rectangle.
MouseMoveSelect(cell) ==
  LET start == drawState.selectionStart
  IN  IF start = Null
      THEN /\ lastEvent' = "move:noStart"
           /\ UNCHANGED <<canvasSize, pendingCanvasSize, gridSpacing, pixels,
                          selectedColor, tool, selection, hasUnsavedChanges, drawState,
                          selectionClipboard, floatingPaste, undoStack>>
      ELSE /\ drawState' =
                IF cell.x # Val(start).x \/ cell.y # Val(start).y
                THEN [drawState EXCEPT !.selectionMoved = TRUE,
                                       !.clearSelectionOnMouseUp = FALSE]
                ELSE drawState
           /\ selection' = normalizeSelection(Val(start).x, Val(start).y, cell.x, cell.y)
           /\ lastEvent' = "move:select"
           /\ UNCHANGED <<canvasSize, pendingCanvasSize, gridSpacing, pixels,
                          selectedColor, tool, hasUnsavedChanges, selectionClipboard,
                          floatingPaste, undoStack>>

\* Any other tool: extend the stroke from the last recorded cell.
MouseMoveDraw(cell) ==
  LET lastCell == IF drawState.lastDrawCell = Null THEN cell ELSE Val(drawState.lastDrawCell)
      erase == tool = "eraser"
  IN  /\ pixels' = applyStrokeSegment(pixels, lastCell, cell, erase, selection, canvasSize,
                                      selectedColor)
      /\ hasUnsavedChanges' =
           (hasUnsavedChanges \/
            StrokeChanged(pixels, lastCell, cell, erase, selection, canvasSize,
                          selectedColor))
      /\ drawState' = [drawState EXCEPT !.lastDrawCell = Some(cell)]
      /\ lastEvent' = "move:draw"
      /\ UNCHANGED <<canvasSize, pendingCanvasSize, gridSpacing, selectedColor, tool,
                     selection, selectionClipboard, floatingPaste, undoStack>>

\* onMouseMove with the pointer over raw cell `at` (no panning).
onMouseMove(at) ==
  LET hit == getCellFromEvent(at, canvasSize)
  IN  IF ~drawState.active \/ hit = Null
      THEN /\ lastEvent' = "move:idle"
           /\ UNCHANGED <<canvasSize, pendingCanvasSize, gridSpacing, pixels,
                          selectedColor, tool, selection, hasUnsavedChanges, drawState,
                          selectionClipboard, floatingPaste, undoStack>>
      ELSE IF /\ drawState.moveStartCell # Null
              /\ drawState.moveStartOrigin # Null
              /\ floatingPaste # Null
      THEN MouseMoveFloat(Val(hit))
      ELSE IF tool = "select"
      THEN MouseMoveSelect(Val(hit))
      ELSE MouseMoveDraw(Val(hit))

\* onMouseUp that also drops the floating block it was moving.
onMouseUpDropsFloat ==
  LET wasMovingPaste == drawState.moveStartCell # Null /\ floatingPaste # Null
      selectStart == drawState.selectionStart
      shouldClearSelection ==
        /\ tool = "select"
        /\ drawState.clearSelectionOnMouseUp
        /\ selectStart # Null
        /\ ~drawState.selectionMoved
      shouldSelectSingleTile ==
        /\ tool = "select"
        /\ selectStart # Null
        /\ ~drawState.selectionMoved
        /\ ~drawState.clearSelectionOnMouseUp
  IN  /\ selection' =
           IF shouldSelectSingleTile
           THEN resolveSingleTileSelection(Val(selectStart), gridSpacing, canvasSize)
           ELSE IF shouldClearSelection THEN Null ELSE selection
      /\ drawState' = IdleDrawState
      /\ floatingPaste' = IF wasMovingPaste THEN Null ELSE floatingPaste
      /\ lastEvent' = IF shouldSelectSingleTile THEN "up:tile"
                      ELSE IF shouldClearSelection THEN "up:deselect"
                      ELSE IF wasMovingPaste THEN "up:placed"
                      ELSE "up"
      /\ UNCHANGED <<canvasSize, pendingCanvasSize, gridSpacing, pixels, selectedColor,
                     tool, hasUnsavedChanges, selectionClipboard, undoStack>>

\* --------------------------------------------------------------- onMouseUp
\* onMouseUp (also run by onMouseLeaveCanvas), no panning.
onMouseUp ==
  LET wasMovingPaste == drawState.moveStartCell # Null /\ floatingPaste # Null
      selectStart == drawState.selectionStart
      shouldClearSelection ==
        /\ tool = "select"
        /\ drawState.clearSelectionOnMouseUp
        /\ selectStart # Null
        /\ ~drawState.selectionMoved
      shouldSelectSingleTile ==
        /\ tool = "select"
        /\ selectStart # Null
        /\ ~drawState.selectionMoved
        /\ ~drawState.clearSelectionOnMouseUp
  IN  /\ selection' =
           IF shouldSelectSingleTile
           THEN resolveSingleTileSelection(Val(selectStart), gridSpacing, canvasSize)
           ELSE IF shouldClearSelection THEN Null ELSE selection
      /\ drawState' = IdleDrawState
      /\ lastEvent' = IF shouldSelectSingleTile THEN "up:tile"
                      ELSE IF shouldClearSelection THEN "up:deselect"
                      ELSE IF wasMovingPaste THEN "up:placed"
                      ELSE "up"
      /\ UNCHANGED <<canvasSize, pendingCanvasSize, gridSpacing, pixels, selectedColor,
                     tool, hasUnsavedChanges, selectionClipboard, floatingPaste, undoStack>>

\* --------------------------------------------------- keyboard and toolbar
\* onEscape that clears an existing selection before looking at the block.
onEscapeSelectionFirst ==
  IF selection = Null /\ floatingPaste # Null
  THEN cancelFloatingPaste
  ELSE /\ selection' = Null
       /\ lastEvent' = IF selection # Null THEN "escape:deselect" ELSE "escape:none"
       /\ UNCHANGED <<canvasSize, pendingCanvasSize, gridSpacing, pixels, selectedColor,
                      tool, hasUnsavedChanges, drawState, selectionClipboard,
                      floatingPaste, undoStack>>

\* Escape: cancel the floating block first, otherwise clear the selection.
onEscape ==
  IF floatingPaste # Null
  THEN cancelFloatingPaste
  ELSE /\ selection' = Null
       /\ lastEvent' = IF selection # Null THEN "escape:deselect" ELSE "escape:none"
       /\ UNCHANGED <<canvasSize, pendingCanvasSize, gridSpacing, pixels, selectedColor,
                      tool, hasUnsavedChanges, drawState, selectionClipboard,
                      floatingPaste, undoStack>>

\* setTool that also drops the selection when leaving the select tool.
setToolDropsSelection(next) ==
  /\ tool' = next
  /\ selection' = IF next = "select" THEN selection ELSE Null
  /\ lastEvent' = "tool"
  /\ UNCHANGED <<canvasSize, pendingCanvasSize, gridSpacing, pixels, selectedColor,
                 hasUnsavedChanges, drawState, selectionClipboard, floatingPaste,
                 undoStack>>

\* setTool(next): the B / E / G / V keys and the toolbar buttons.
setTool(next) ==
  /\ tool' = next
  /\ lastEvent' = "tool"
  /\ UNCHANGED <<canvasSize, pendingCanvasSize, gridSpacing, pixels, selectedColor,
                 selection, hasUnsavedChanges, drawState, selectionClipboard,
                 floatingPaste, undoStack>>

\* setSelectedColor(hex): a palette swatch.
setSelectedColor(hex) ==
  /\ selectedColor' = hex
  /\ lastEvent' = "color"
  /\ UNCHANGED <<canvasSize, pendingCanvasSize, gridSpacing, pixels, tool, selection,
                 hasUnsavedChanges, drawState, selectionClipboard, floatingPaste,
                 undoStack>>

updateGridSpacing(value) ==
  /\ gridSpacing' = value
  /\ hasUnsavedChanges' = TRUE
  /\ lastEvent' = "grid"
  /\ UNCHANGED <<canvasSize, pendingCanvasSize, pixels, selectedColor, tool, selection,
                 drawState, selectionClipboard, floatingPaste, undoStack>>

\* setPendingCanvasSize(text): typing into the canvas-size field.
setPendingCanvasSize(text) ==
  /\ pendingCanvasSize' = text
  /\ lastEvent' = "typed"
  /\ UNCHANGED <<canvasSize, gridSpacing, pixels, selectedColor, tool, selection,
                 hasUnsavedChanges, drawState, selectionClipboard, floatingPaste,
                 undoStack>>

\* applyCanvasSize without `undoStackRef.current = []`.
applyCanvasSizeKeepsHistory ==
  LET parsed == ParseInt(pendingCanvasSize)
      normalized == clampCanvasSize(Val(parsed), MIN_CANVAS_SIZE, MAX_CANVAS_SIZE)
  IN  IF parsed = Null
      THEN /\ lastEvent' = "resize:notNumeric"
           /\ UNCHANGED <<canvasSize, pendingCanvasSize, gridSpacing, pixels,
                          selectedColor, tool, selection, hasUnsavedChanges, drawState,
                          selectionClipboard, floatingPaste, undoStack>>
      ELSE /\ canvasSize' = normalized
           /\ pixels' = createEmptyPixels(normalized)
           /\ selection' = Null
           /\ floatingPaste' = clearFloatingPaste
           /\ drawState' = ClearMoveState(drawState)
           /\ hasUnsavedChanges' = TRUE
           /\ pendingCanvasSize' = ToText(normalized)
           /\ lastEvent' = "resize"
           /\ UNCHANGED <<gridSpacing, selectedColor, tool, selectionClipboard, undoStack>>

\* applyCanvasSize without setSelection(null).
applyCanvasSizeKeepsSelection ==
  LET parsed == ParseInt(pendingCanvasSize)
      normalized == clampCanvasSize(Val(parsed), MIN_CANVAS_SIZE, MAX_CANVAS_SIZE)
  IN  IF parsed = Null
      THEN /\ lastEvent' = "resize:notNumeric"
           /\ UNCHANGED <<canvasSize, pendingCanvasSize, gridSpacing, pixels,
                          selectedColor, tool, selection, hasUnsavedChanges, drawState,
                          selectionClipboard, floatingPaste, undoStack>>
      ELSE /\ canvasSize' = normalized
           /\ pixels' = createEmptyPixels(normalized)
           /\ floatingPaste' = clearFloatingPaste
           /\ drawState' = ClearMoveState(drawState)
           /\ hasUnsavedChanges' = TRUE
           /\ pendingCanvasSize' = ToText(normalized)
           /\ undoStack' = <<>>
           /\ lastEvent' = "resize"
           /\ UNCHANGED <<gridSpacing, selectedColor, tool, selection, selectionClipboard>>

applyCanvasSize ==
  LET parsed == ParseInt(pendingCanvasSize)
      normalized == clampCanvasSize(Val(parsed), MIN_CANVAS_SIZE, MAX_CANVAS_SIZE)
  IN  IF parsed = Null
      THEN /\ lastEvent' = "resize:notNumeric"
           /\ UNCHANGED <<canvasSize, pendingCanvasSize, gridSpacing, pixels,
                          selectedColor, tool, selection, hasUnsavedChanges, drawState,
                          selectionClipboard, floatingPaste, undoStack>>
      ELSE /\ canvasSize' = normalized
           /\ pixels' = createEmptyPixels(normalized)
           /\ selection' = Null
           /\ floatingPaste' = clearFloatingPaste
           /\ drawState' = ClearMoveState(drawState)
           /\ hasUnsavedChanges' = TRUE
           /\ pendingCanvasSize' = ToText(normalized)
           /\ undoStack' = <<>>
           /\ lastEvent' = "resize"
           /\ UNCHANGED <<gridSpacing, selectedColor, tool, selectionClipboard>>

\* The pixels after the selected rectangle is cleared; pixels whose alpha is
\* already 0 are skipped when skipClear is set (clearCanvas), and every pixel
\* of the rectangle is zeroed otherwise (deleteSelection).
ZeroRect(prev, sel, size, skipClear) ==
  LET inside == {PixelIndex(x, y, size) :
                   x \in sel.x .. sel.x + sel.w - 1, y \in sel.y .. sel.y + sel.h - 1}
      stored == IF skipClear THEN {i \in inside : ReadPx(prev, i)[4] # 0} ELSE inside
  IN  Overlay(clonePixels(prev), [i \in stored |-> Transparent])

\* clearCanvas that ends with setSelection(null) in both branches.
clearCanvasDropsSelection ==
  /\ undoStack' = pushUndo(undoStack, pixels)
  /\ pixels' = IF selection # Null
               THEN ZeroRect(pixels, Val(selection), canvasSize, TRUE)
               ELSE createEmptyPixels(canvasSize)
  /\ selection' = Null
  /\ hasUnsavedChanges' = TRUE
  /\ floatingPaste' = clearFloatingPaste
  /\ drawState' = ClearMoveState(drawState)
  /\ lastEvent' = "clear"
  /\ UNCHANGED <<canvasSize, pendingCanvasSize, gridSpacing, selectedColor, tool,
                 selectionClipboard>>

clearCanvas ==
  /\ undoStack' = pushUndo(undoStack, pixels)
  /\ pixels' = IF selection # Null
               THEN ZeroRect(pixels, Val(selection), canvasSize, TRUE)
               ELSE createEmptyPixels(canvasSize)
  /\ selection' = IF selection # Null THEN selection ELSE Null
  /\ hasUnsavedChanges' = TRUE
  /\ floatingPaste' = clearFloatingPaste
  /\ drawState' = ClearMoveState(drawState)
  /\ lastEvent' = "clear"
  /\ UNCHANGED <<canvasSize, pendingCanvasSize, gridSpacing, selectedColor, tool,
                 selectionClipboard>>

\* doUndo taking the oldest snapshot (shift for pop).
doUndoOldest ==
  IF undoStack = <<>>
  THEN /\ lastEvent' = "undo:empty"
       /\ UNCHANGED <<canvasSize, pendingCanvasSize, gridSpacing, pixels, selectedColor,
                      tool, selection, hasUnsavedChanges, drawState, selectionClipboard,
                      floatingPaste, undoStack>>
  ELSE /\ pixels' = undoStack[1]
       /\ undoStack' = Tail(undoStack)
       /\ floatingPaste' = clearFloatingPaste
       /\ drawState' = ClearMoveState(drawState)
       /\ hasUnsavedChanges' = TRUE
       /\ lastEvent' = "undo"
       /\ UNCHANGED <<canvasSize, pendingCanvasSize, gridSpacing, selectedColor, tool,
                      selection, selectionClipboard>>

\* doUndo that also clears the selection.
doUndoDropsSelection ==
  IF undoStack = <<>>
  THEN /\ lastEvent' = "undo:empty"
       /\ UNCHANGED <<canvasSize, pendingCanvasSize, gridSpacing, pixels, selectedColor,
                      tool, selection, hasUnsavedChanges, drawState, selectionClipboard,
                      floatingPaste, undoStack>>
  ELSE /\ pixels' = undoStack[Len(undoStack)]
       /\ undoStack' = SubSeq(undoStack, 1, Len(undoStack) - 1)
       /\ floatingPaste' = clearFloatingPaste
       /\ drawState' = ClearMoveState(drawState)
       /\ hasUnsavedChanges' = TRUE
       /\ selection' = Null
       /\ lastEvent' = "undo"
       /\ UNCHANGED <<canvasSize, pendingCanvasSize, gridSpacing, selectedColor, tool,
                      selectionClipboard>>

doUndo ==
  IF undoStack = <<>>
  THEN /\ lastEvent' = "undo:empty"
       /\ UNCHANGED <<canvasSize, pendingCanvasSize, gridSpacing, pixels, selectedColor,
                      tool, selection, hasUnsavedChanges, drawState, selectionClipboard,
                      floatingPaste, undoStack>>
  ELSE /\ pixels' = undoStack[Len(undoStack)]
       /\ undoStack' = SubSeq(undoStack, 1, Len(undoStack) - 1)
       /\ floatingPaste' = clearFloatingPaste
       /\ drawState' = ClearMoveState(drawState)
       /\ hasUnsavedChanges' = TRUE
       /\ lastEvent' = "undo"
       /\ UNCHANGED <<canvasSize, pendingCanvasSize, gridSpacing, selectedColor, tool,
                      selection, selectionClipboard>>

\* deleteSelection with pushUndo() ahead of the `if (!selection)` return.
deleteSelectionPushesFirst ==
  IF selection = Null
  THEN /\ undoStack' = pushUndo(undoStack, pixels)
       /\ lastEvent' = "delete:noSelection"
       /\ UNCHANGED <<canvasSize, pendingCanvasSize, gridSpacing, pixels, selectedColor,
                      tool, selection, hasUnsavedChanges, drawState, selectionClipboard,
                      floatingPaste>>
  ELSE /\ undoStack' = pushUndo(undoStack, pixels)
       /\ floatingPaste' = clearFloatingPaste
       /\ drawState' = ClearMoveState(drawState)
       /\ pixels' = ZeroRect(pixels, Val(selection), canvasSize, FALSE)
       /\ hasUnsavedChanges' = TRUE
       /\ lastEvent' = "delete"
       /\ UNCHANGED <<canvasSize, pendingCanvasSize, gridSpacing, selectedColor, tool,
                      selection, selectionClipboard>>

deleteSelection ==
  IF selection = Null
  THEN /\ lastEvent' = "delete:noSelection"
       /\ UNCHANGED <<canvasSize, pendingCanvasSize, gridSpacing, pixels, selectedColor,
                      tool, selection, hasUnsavedChanges, drawState, selectionClipboard,
                      floatingPaste, undoStack>>
  ELSE /\ undoStack' = pushUndo(undoStack, pixels)
       /\ floatingPaste' = clearFloatingPaste
       /\ drawState' = ClearMoveState(drawState)
       /\ pixels' = ZeroRect(pixels, Val(selection), canvasSize, FALSE)
       /\ hasUnsavedChanges' = TRUE
       /\ lastEvent' = "delete"
       /\ UNCHANGED <<canvasSize, pendingCanvasSize, gridSpacing, selectedColor, tool,
                      selection, selectionClipboard>>

\* The clipboard entry copySelection stores; createImageData(w, h) has
\* |w| * |h| pixels.
CopiedBlock(buf, sel, size) ==
  [width |-> sel.w, height |-> sel.h,
   pixels |-> BlockPixels(buf, sel, size, Abs(sel.w) * Abs(sel.h) * 4),
   sourceX |-> sel.x, sourceY |-> sel.y]

copySelection ==
  IF selection = Null
  THEN /\ lastEvent' = "copy:noSelection"
       /\ UNCHANGED <<canvasSize, pendingCanvasSize, gridSpacing, pixels, selectedColor,
                      tool, selection, hasUnsavedChanges, drawState, selectionClipboard,
                      floatingPaste, undoStack>>
  ELSE /\ selectionClipboard' = Some(CopiedBlock(pixels, Val(selection), canvasSize))
       /\ lastEvent' = "copy"
       /\ UNCHANGED <<canvasSize, pendingCanvasSize, gridSpacing, pixels, selectedColor,
                      tool, selection, hasUnsavedChanges, drawState, floatingPaste,
                      undoStack>>

\* Where and how large pasteSelection places the clipboard block.
PasteRect(clip, sel, size) ==
  LET baseX == IF sel # Null THEN Val(sel).x ELSE Min(clip.sourceX + 1, size - 1)
      baseY == IF sel # Null THEN Val(sel).y ELSE Min(clip.sourceY + 1, size - 1)
      pasteX == Max(0, Min(baseX, size - 1))
      pasteY == Max(0, Min(baseY, size - 1))
  IN  Rect(pasteX, pasteY, Max(0, Min(clip.width, size - pasteX)),
           Max(0, Min(clip.height, size - pasteY)))

\* The clipboard block truncated to the paste size.
PastedPixels(clip, pasteWidth, pasteHeight) ==
  LET src(j) == (j \div pasteWidth) * clip.width + (j % pasteWidth)
      full == {j \in 0 .. pasteWidth * pasteHeight - 1 :
                 ReadPx(clip.pixels, src(j)) # Transparent}
  IN  [len |-> pasteWidth * pasteHeight * 4,
       px |-> [j \in full |-> ReadPx(clip.pixels, src(j))]]

\* The floating block pasteSelection stores in floatingPasteRef.
PastedFloat(buf, clip, at, sel, curTool) ==
  [x |-> at.x, y |-> at.y, width |-> at.w, height |-> at.h,
   pixels |-> PastedPixels(clip, at.w, at.h),
   basePixels |-> clonePixels(buf),
   restorePixels |-> clonePixels(buf),
   restoreSelection |-> cloneSelection(sel),
   restoreTool |-> curTool]

pasteSelection ==
  IF selectionClipboard = Null
  THEN /\ lastEvent' = "paste:noClipboard"
       /\ UNCHANGED <<canvasSize, pendingCanvasSize, gridSpacing, pixels, selectedColor,
                      tool, selection, hasUnsavedChanges, drawState, selectionClipboard,
                      floatingPaste, undoStack>>
  ELSE LET clip == Val(selectionClipboard)
           at == PasteRect(clip, selection, canvasSize)
           float == PastedFloat(pixels, clip, at, selection, tool)
       IN  IF at.w = 0 \/ at.h = 0
           THEN /\ lastEvent' = "paste:outside"
                /\ UNCHANGED <<canvasSize, pendingCanvasSize, gridSpacing, pixels,
                               selectedColor, tool, selection, hasUnsavedChanges,
                               drawState, selectionClipboard, floatingPaste, undoStack>>
           ELSE /\ undoStack' = pushUndo(undoStack, pixels)
                /\ pixels' = blitBlockOnCanvas(float.basePixels, canvasSize, float.pixels,
                                               at.w, at.h, at.x, at.y)
                /\ floatingPaste' = Some(float)
                /\ tool' = "select"
                /\ selection' = Some(Rect(at.x, at.y, at.w, at.h))
                /\ lastEvent' = "paste"
                /\ UNCHANGED <<canvasSize, pendingCanvasSize, gridSpacing, selectedColor,
                               hasUnsavedChanges, drawState, selectionClipboard>>

\* ------------------------------------------------------------------ loadPng
\* What the host and the image decoder answer to one loadPng() call:
\*   confirm  the answer of confirmOpenWithUnsaved (asked only when dirty)
\*   save     the outcome of performSave (run only for "save-open")
\*   open     "canceled" (dialog cancelled or no bytes), "decodeError", "ok"
\*   width, height      the decoded image's size
\*   metaCanvasSize, metaTool, metaGrid   metadata fields, Null when absent
\*   metaLegacyGrid  the `grid` field of older saves, Null when absent
\*   painted  the cells that are opaque black once the image is drawn
LoadResponse(confirm, save, open, width, height, metaCanvasSize, metaTool, metaGrid, painted) ==
  [confirm |-> confirm, save |-> save, open |-> open, width |-> width,
   height |-> height, metaCanvasSize |-> metaCanvasSize, metaTool |-> metaTool,
   metaGrid |-> metaGrid, metaLegacyGrid |-> Null, painted |-> painted]

\* The same answer for a file of an older version, whose metadata carries the
\* canvas size under `grid`.
WithLegacyGrid(resp, size) == [resp EXCEPT !.metaLegacyGrid = Some(size)]

\* targetCanvasSize of loadPng.
TargetCanvasSize(resp) ==
  LET fallbackSize == IF resp.width = resp.height THEN resp.width ELSE DEFAULT_CANVAS_SIZE
  IN  clampCanvasSize(IF resp.metaCanvasSize # Null THEN Val(resp.metaCanvasSize)
                      ELSE fallbackSize,
                      MIN_CANVAS_SIZE, MAX_CANVAS_SIZE)

\* new Uint8ClampedArray(imageData.data) for getImageData(0, 0, size, size).
LoadedPixels(resp, size) ==
  Overlay(NewArray(size * size * 4),
          [i \in {PixelIndex(c.x, c.y, size) :
                    c \in {d \in resp.painted : d.x < size /\ d.y < size}}
             |-> <<0, 0, 0, 255>>])

\* LoadProceeds that goes on after save-open whatever the save returned.
LoadProceedsAfterAnySave(resp) ==
  \/ ~hasUnsavedChanges
  \/ resp.confirm \in {"discard", "save-open"}

\* TRUE when loadPng gets as far as calling openPng.
LoadProceeds(resp) ==
  \/ ~hasUnsavedChanges
  \/ resp.confirm = "discard"
  \/ resp.confirm = "save-open" /\ resp.save = "saved"

\* loadPng that drops the selection, the floating block and the history as
\* soon as the host returns bytes, before the image has decoded.
loadPngResetsBeforeDecode(resp) ==
  LET savedFirst == hasUnsavedChanges /\ resp.confirm = "save-open" /\ resp.save = "saved"
      size == TargetCanvasSize(resp)
  IN  IF ~LoadProceeds(resp)
      THEN /\ lastEvent' = "load:aborted"
           /\ UNCHANGED <<canvasSize, pendingCanvasSize, gridSpacing, pixels,
                          selectedColor, tool, selection, hasUnsavedChanges, drawState,
                          selectionClipboard, floatingPaste, undoStack>>
      ELSE IF resp.open = "canceled"
      THEN /\ hasUnsavedChanges' = IF savedFirst THEN FALSE ELSE hasUnsavedChanges
           /\ lastEvent' = "load:canceled"
           /\ UNCHANGED <<canvasSize, pendingCanvasSize, gridSpacing, pixels,
                          selectedColor, tool, selection, drawState, selectionClipboard,
                          floatingPaste, undoStack>>
      ELSE IF resp.open # "ok"
      THEN /\ hasUnsavedChanges' = IF savedFirst THEN FALSE ELSE hasUnsavedChanges
           /\ selection' = Null
           /\ floatingPaste' = clearFloatingPaste
           /\ drawState' = ClearMoveState(drawState)
           /\ undoStack' = <<>>
           /\ lastEvent' = "load:failed"
           /\ UNCHANGED <<canvasSize, pendingCanvasSize, gridSpacing, pixels,
                          selectedColor, tool, selectionClipboard>>
      ELSE /\ canvasSize' = size
           /\ pendingCanvasSize' = ToText(size)
           /\ pixels' = LoadedPixels(resp, size)
           /\ selection' = Null
           /\ floatingPaste' = clearFloatingPaste
           /\ drawState' = ClearMoveState(drawState)
           /\ undoStack' = <<>>
           /\ tool' = IF resp.metaTool # Null THEN Val(resp.metaTool) ELSE tool
           /\ gridSpacing' =
                LET loaded == IF resp.metaGrid # Null THEN Val(resp.metaGrid)
                              ELSE DEFAULT_GRID_SPACING
                IN  IF loaded \in GRID_SPACING_OPTIONS THEN loaded ELSE gridSpacing
           /\ hasUnsavedChanges' = FALSE
           /\ lastEvent' = "load"
           /\ UNCHANGED <<selectedColor, selectionClipboard>>

\* loadPng() from the click to the last state update.
loadPng(resp) ==
  LET savedFirst == hasUnsavedChanges /\ resp.confirm = "save-open" /\ resp.save = "saved"
      size == TargetCanvasSize(resp)
  IN  IF ~LoadProceeds(resp)
      THEN /\ lastEvent' = "load:aborted"
           /\ UNCHANGED <<canvasSize, pendingCanvasSize, gridSpacing, pixels,
                          selectedColor, tool, selection, hasUnsavedChanges, drawState,
                          selectionClipboard, floatingPaste, undoStack>>
      ELSE IF resp.open # "ok"
      THEN /\ hasUnsavedChanges' = IF savedFirst THEN FALSE ELSE hasUnsavedChanges
           /\ lastEvent' = IF resp.open = "canceled" THEN "load:canceled" ELSE "load:failed"
           /\ UNCHANGED <<canvasSize, pendingCanvasSize, gridSpacing, pixels,
                          selectedColor, tool, selection, drawState, selectionClipboard,
                          floatingPaste, undoStack>>
      ELSE /\ canvasSize' = size
           /\ pendingCanvasSize' = ToText(size)
           /\ pixels' = LoadedPixels(resp, size)
           /\ selection' = Null
           /\ floatingPaste' = clearFloatingPaste
           /\ drawState' = ClearMoveState(drawState)
           /\ undoStack' = <<>>
           /\ tool' = IF resp.metaTool # Null THEN Val(resp.metaTool) ELSE tool
           /\ gridSpacing' =
                LET loaded == IF resp.metaGrid # Null THEN Val(resp.metaGrid)
                              ELSE DEFAULT_GRID_SPACING
                IN  IF loaded \in GRID_SPACING_OPTIONS THEN loaded ELSE gridSpacing
           /\ hasUnsavedChanges' = FALSE
           /\ lastEvent' = "load"
           /\ UNCHANGED <<selectedColor, selectionClipboard>>

\* -------------------------------------------------------------- performSave
\* createSavePayload: the PNG of pixels.slice() and the metadata.
createSavePayload ==
  [pixels |-> clonePixels(pixels), canvasSize |-> canvasSize,
   gridSpacing |-> gridSpacing, lastTool |-> tool]

\* performSave up to its await: the payload is built from the state of this
\* render and handed to window.pixelApi.savePng.  hasContext is FALSE when
\* getContext('2d') returns null.
performSaveRequest(hasContext) ==
  /\ saveRequest' = IF hasContext THEN Some(createSavePayload) ELSE saveRequest
  /\ lastEvent' = IF hasContext THEN "save:request" ELSE "save:noContext"
  /\ savedPixels' = savedPixels
  /\ UNCHANGED <<canvasSize, pendingCanvasSize, gridSpacing, pixels, selectedColor,
                 tool, selection, hasUnsavedChanges, drawState, selectionClipboard,
                 floatingPaste, undoStack>>

\* performSave after its await: the host answered with a file path, with a
\* cancelled dialog, or the call threw.
performSaveResponse(result) ==
  /\ saveRequest' = Null
  /\ hasUnsavedChanges' = IF result = "saved" THEN FALSE ELSE hasUnsavedChanges
  /\ savedPixels' = IF result = "saved" THEN Val(saveRequest).pixels ELSE savedPixels
  /\ lastEvent' = CASE result = "saved" -> "save:saved"
                    [] result = "canceled" -> "save:canceled"
                    [] OTHER -> "save:failed"
  /\ UNCHANGED <<canvasSize, pendingCanvasSize, gridSpacing, pixels, selectedColor,
                 tool, selection, drawState, selectionClipboard, floatingPaste,
                 undoStack>>

\* ------------------------------------------------------------ explored inputs
\* Raw pointer cells: two neighbours at the origin and one in another tile.
PointerCells == {Cell(0, 0), Cell(1, 1), Cell(17, 17)}

\* The palette swatch the user picks.
PickedColors == {DEFAULT_PALETTE[3]}

\* The grid spacing the user picks.
PickedSpacings == {8}

\* Texts typed into the size field: "x" and "4".
TypedTexts == {<<-1>>, <<4>>}

LoadResponses ==
  { LoadResponse("discard", "saved", "canceled", 0, 0, Null, Null, Null, {}),
    LoadResponse("discard", "saved", "decodeError", 0, 0, Null, Null, Null, {}),
    LoadResponse("cancel", "saved", "ok", 8, 8, Null, Null, Null, {}),
    LoadResponse("discard", "saved", "ok", 8, 8, Null, Null, Null, {Cell(0, 0)}),
    LoadResponse("save-open", "saved", "ok", 300, 200, Some(12), Some("select"), Some(8),
                 {Cell(1, 1)}) }

\* Cells under the mask a fill press would flood.
FillMaskCells ==
  IF selection # Null THEN Val(selection).w * Val(selection).h
  ELSE canvasSize * canvasSize

\* ------------------------------------------------------------------- actions
\* The handler paths that change nothing but lastEvent.
QuietEvents ==
  {"down:outside", "move:idle", "move:noStart", "enter:none", "escape:none",
   "undo:empty", "copy:noSelection", "delete:noSelection", "paste:noClipboard",
   "paste:outside", "resize:notNumeric", "load:aborted", "save:noContext"}

\* cancelled after the handler run: set by an Escape that cancels a floating
\* block while its drag is held, kept until the next press or release.
CancelledNext ==
  IF lastEvent' = "escape:cancel"
  THEN drawState.active /\ drawState.moveStartCell # Null /\ floatingPaste # Null
  ELSE IF lastEvent' \in {"down:outside", "down:continue", "down:lift", "down:fill",
                          "down:fillNone", "down:select", "down:draw", "up", "up:tile",
                          "up:deselect", "up:placed"}
  THEN FALSE
  ELSE cancelled

\* Counts the handler run.  A state whose last run was quiet only records that
\* run: the program state in it is that of the state before, and the runs that
\* can follow are explored from there.
Tick(limit) ==
  /\ lastEvent \notin QuietEvents
  /\ events < limit
  /\ events' = events + 1
  /\ hadFloat' = (floatingPaste # Null)
  /\ cancelled' = CancelledNext
  /\ pointer' = Null
  /\ opened' = Null
  /\ IF lastEvent' \in {"save:request", "save:noContext", "save:saved", "save:canceled",
                        "save:failed"}
     THEN TRUE  \* performSave wrote saveRequest and savedPixels
     ELSE UNCHANGED <<saveRequest, savedPixels>>

\* The same for the handlers of the canvas that read the event's position.
TickAt(limit, at) ==
  /\ lastEvent \notin QuietEvents
  /\ events < limit
  /\ events' = events + 1
  /\ hadFloat' = (floatingPaste # Null)
  /\ cancelled' = CancelledNext
  /\ pointer' = Some(at)
  /\ opened' = Null
  /\ UNCHANGED <<saveRequest, savedPixels>>

\* The same for loadPng, which reads the host's answer.
TickLoad(limit, resp) ==
  /\ lastEvent \notin QuietEvents
  /\ events < limit
  /\ events' = events + 1
  /\ hadFloat' = (floatingPaste # Null)
  /\ cancelled' = CancelledNext
  /\ pointer' = Null
  /\ opened' = Some(resp)
  /\ saveRequest' = saveRequest
  /\ savedPixels' = IF lastEvent' = "load" THEN pixels'
                    ELSE IF hasUnsavedChanges /\ resp.confirm = "save-open"
                            /\ resp.save = "saved" THEN pixels
                    ELSE savedPixels

MouseDown ==
  \E at \in PointerCells :
    /\ tool = "fill" => FillMaskCells <= MaxFillCells
    /\ onMouseDown(at)
    /\ TickAt(MaxEvents, at)

MouseMove == \E at \in PointerCells : onMouseMove(at) /\ TickAt(MaxEvents, at)

MouseUp == onMouseUp /\ Tick(MaxEvents)

KeyEnter == finalizeFloatingPaste /\ Tick(MaxEvents)

KeyEscape == onEscape /\ Tick(MaxEvents)

SetTool == \E t \in Tools : setTool(t) /\ Tick(MaxEvents)

SetColor == \E hex \in PickedColors : setSelectedColor(hex) /\ Tick(MaxEvents)

SetGrid == \E g \in PickedSpacings : updateGridSpacing(g) /\ Tick(MaxEvents)

TypeSize == \E text \in TypedTexts : setPendingCanvasSize(text) /\ Tick(MaxEvents)

ApplySize == applyCanvasSize /\ Tick(MaxEvents)

Clear == clearCanvas /\ Tick(MaxEvents)

Undo == doUndo /\ Tick(MaxEvents)

Delete == deleteSelection /\ Tick(MaxEvents)

Copy == copySelection /\ Tick(MaxEvents)

Paste == pasteSelection /\ Tick(MaxEvents)

Load == \E resp \in LoadResponses : loadPng(resp) /\ TickLoad(MaxEvents, resp)

Next ==
  \/ MouseDown
  \/ MouseMove
  \/ MouseUp
  \/ KeyEnter
  \/ KeyEscape
  \/ SetTool
  \/ SetColor
  \/ SetGrid
  \/ TypeSize
  \/ ApplySize
  \/ Clear
  \/ Undo
  \/ Delete
  \/ Copy
  \/ Paste
  \/ Load

Spec == Init /\ [][Next]_vars

\* ------------------------------------------------- the editing session, deeper
\* The same handlers under fewer inputs: two neighbouring cells, the size
\* field left as rendered, one image that loads and one that does not.
EditCells == {Cell(0, 0), Cell(1, 1)}

EditLoads ==
  { LoadResponse("discard", "saved", "decodeError", 0, 0, Null, Null, Null, {}),
    LoadResponse("discard", "saved", "ok", 8, 8, Null, Null, Null, {Cell(0, 0)}) }

EditMouseDown ==
  \E at \in EditCells :
    /\ tool = "fill" => FillMaskCells <= MaxFillCells
    /\ onMouseDown(at)
    /\ TickAt(MaxEditEvents, at)

EditMouseMove == \E at \in EditCells : onMouseMove(at) /\ TickAt(MaxEditEvents, at)

EditMouseUp == onMouseUp /\ Tick(MaxEditEvents)

EditKeyEnter == finalizeFloatingPaste /\ Tick(MaxEditEvents)

EditKeyEscape == onEscape /\ Tick(MaxEditEvents)

EditSetTool == \E t \in Tools : setTool(t) /\ Tick(MaxEditEvents)

EditApplySize == applyCanvasSize /\ Tick(MaxEditEvents)

EditClear == clearCanvas /\ Tick(MaxEditEvents)

EditUndo == doUndo /\ Tick(MaxEditEvents)

EditDelete == deleteSelection /\ Tick(MaxEditEvents)

EditCopy == copySelection /\ Tick(MaxEditEvents)

EditPaste == pasteSelection /\ Tick(MaxEditEvents)

EditLoad == \E resp \in EditLoads : loadPng(resp) /\ TickLoad(MaxEditEvents, resp)

NextEdit ==
  \/ EditMouseDown
  \/ EditMouseMove
  \/ EditMouseUp
  \/ EditKeyEnter
  \/ EditKeyEscape
  \/ EditSetTool
  \/ EditApplySize
  \/ EditClear
  \/ EditUndo
  \/ EditDelete
  \/ EditCopy
  \/ EditPaste
  \/ EditLoad

SpecEdit == Init /\ [][NextEdit]_vars

\* ----------------------------------------- a gesture interrupted by a load
\* A press beyond the size of the image that is then loaded, and a pointer
\* that comes back into the canvas before the button is released; the
\* selection the gesture leaves can then be copied, pasted, cleared or lifted.
StaleCells == {Cell(0, 0), Cell(9, 0), Cell(17, 17)}

StaleLoads == { LoadResponse("discard", "saved", "ok", 8, 8, Null, Null, Null, {Cell(1, 1)}) }

StaleSetTool == \E t \in {"pencil", "select"} : setTool(t) /\ Tick(MaxStaleEvents)

StaleMouseDown == \E at \in StaleCells : onMouseDown(at) /\ TickAt(MaxStaleEvents, at)

StaleMouseMove == \E at \in StaleCells : onMouseMove(at) /\ TickAt(MaxStaleEvents, at)

StaleMouseUp == onMouseUp /\ Tick(MaxStaleEvents)

StaleLoad == \E resp \in StaleLoads : loadPng(resp) /\ TickLoad(MaxStaleEvents, resp)

StaleClear == clearCanvas /\ Tick(MaxStaleEvents)

StaleDelete == deleteSelection /\ Tick(MaxStaleEvents)

StaleCopy == copySelection /\ Tick(MaxStaleEvents)

StalePaste == pasteSelection /\ Tick(MaxStaleEvents)

NextStale ==
  \/ StaleSetTool
  \/ StaleMouseDown
  \/ StaleMouseMove
  \/ StaleMouseUp
  \/ StaleLoad
  \/ StaleClear
  \/ StaleDelete
  \/ StaleCopy
  \/ StalePaste

SpecStale == Init /\ [][NextStale]_vars

\* ------------------------------------------------ a session around a resize
\* The user selects, lifts or draws near the origin, types a size ("x", "",
\* "4", "12" or "2000"), applies it and undoes.
ResizeTexts == {<<-1>>, <<>>, <<4>>, <<1, 2>>, <<2, 0, 0, 0>>}

ResizeSetTool == \E t \in {"pencil", "select"} : setTool(t) /\ Tick(MaxResizeEvents)

ResizeMouseDown ==
  \E at \in EditCells : onMouseDown(at) /\ TickAt(MaxResizeEvents, at)

ResizeTypeSize ==
  \E text \in ResizeTexts : setPendingCanvasSize(text) /\ Tick(MaxResizeEvents)

ResizeApplySize == applyCanvasSize /\ Tick(MaxResizeEvents)

ResizeUndo == doUndo /\ Tick(MaxResizeEvents)

NextResize ==
  \/ ResizeSetTool
  \/ ResizeMouseDown
  \/ ResizeTypeSize
  \/ ResizeApplySize
  \/ ResizeUndo

SpecResize == Init /\ [][NextResize]_vars

\* ------------------------------------------------------------ loading files
\* Image sizes the decoder reports: small and square, not square, square and
\* below the minimum, square and above the maximum.
LoadDims == {<<8, 8>>, <<300, 200>>, <<4, 4>>, <<2000, 2000>>}

\* Files that open and decode: with and without a canvasSize in the metadata,
\* written by this version or by an older one that stored `grid: 128`.
OpenedFiles ==
  UNION {
    LET plain == LoadResponse("discard", "saved", "ok", d[1], d[2], m, Null, Null,
                              {Cell(1, 1)})
    IN  {plain, WithLegacyGrid(plain, 128)}
    : d \in LoadDims, m \in {Null, Some(12), Some(2000)} }

\* Loads that stop early: the open dialog is cancelled or the host has no
\* bytes, the image does not decode, the unsaved-changes dialog is cancelled,
\* the save that goes first is cancelled or fails.
StoppedLoads ==
  { LoadResponse("discard", "saved", "canceled", 0, 0, Null, Null, Null, {}),
    LoadResponse("discard", "saved", "decodeError", 0, 0, Null, Null, Null, {}),
    LoadResponse("save-open", "saved", "decodeError", 0, 0, Null, Null, Null, {}),
    LoadResponse("cancel", "saved", "ok", 8, 8, Null, Null, Null, {}),
    LoadResponse("save-open", "canceled", "ok", 8, 8, Null, Null, Null, {}),
    LoadResponse("save-open", "failed", "ok", 8, 8, Null, Null, Null, {}) }

FileSetTool == \E t \in {"pencil", "select"} : setTool(t) /\ Tick(MaxLoadEvents)

FileMouseDown ==
  \E at \in EditCells : onMouseDown(at) /\ TickAt(MaxLoadEvents, at)

FileMouseUp == onMouseUp /\ Tick(MaxLoadEvents)

FileLoad ==
  \E resp \in OpenedFiles \cup StoppedLoads : loadPng(resp) /\ TickLoad(MaxLoadEvents, resp)

NextLoad ==
  \/ FileSetTool
  \/ FileMouseDown
  \/ FileMouseUp
  \/ FileLoad

SpecLoad == Init /\ [][NextLoad]_vars

\* ------------------------------------------------------------ filling drawings
\* The cells of a drawing that may hold ink: the neighbours of (3,3), a corner
\* and a cell further left.
FillZone == {Cell(3, 2), Cell(2, 3), Cell(4, 3), Cell(3, 4), Cell(2, 2), Cell(1, 2)}

\* Inks of a loaded drawing: opaque black and half-transparent black.
FillInks == {<<0, 0, 0, 255>>, <<0, 0, 0, 128>>}

\* The buffer of a drawing of the given size with ink on the cells `walls`.
FillDrawing(size, walls, ink) ==
  Overlay(createEmptyPixels(size),
          [i \in {PixelIndex(c.x, c.y, size) : c \in walls} |-> ink])

FillSelections == {Null, Some(Rect(2, 2, 3, 3)), Some(Rect(1, 2, 3, 2))}

FillColors == {DEFAULT_PALETTE[1], DEFAULT_PALETTE[3]}

FillStarts == {Cell(3, 3), Cell(1, 2), Cell(2, 2)}

\* The editor with a drawing open, the fill tool armed, a colour picked and a
\* selection made or not.
InitFill ==
  /\ canvasSize \in {MIN_CANVAS_SIZE, 16}
  /\ pendingCanvasSize = ToText(canvasSize)
  /\ gridSpacing = DEFAULT_GRID_SPACING
  /\ pixels \in {FillDrawing(canvasSize, walls, ink) :
                   walls \in SUBSET FillZone, ink \in FillInks}
  /\ selectedColor \in FillColors
  /\ tool = "fill"
  /\ selection \in FillSelections
  /\ hasUnsavedChanges = FALSE
  /\ drawState = IdleDrawState
  /\ selectionClipboard = Null
  /\ floatingPaste = Null
  /\ undoStack = <<>>
  /\ lastEvent = "start"
  /\ hadFloat = FALSE
  /\ pointer = Null
  /\ opened = Null
  /\ saveRequest = Null
  /\ savedPixels = pixels
  /\ cancelled = FALSE
  /\ events = 0

NextFill ==
  \/ \E at \in FillStarts :
       /\ FillMaskCells <= MaxFillCells
       /\ onMouseDown(at)
       /\ TickAt(MaxFillEvents, at)
  \/ doUndo /\ Tick(MaxFillEvents)

SpecFill == InitFill /\ [][NextFill]_vars

\* --------------------------------------------------------------- pencil lines
\* End points of a stroke segment: every cell of a 5x5 corner and three cells
\* further away, one of them on the diagonal.
LineCells ==
  {Cell(x, y) : x \in 0 .. 4, y \in 0 .. 4} \cup {Cell(40, 13), Cell(9, 31), Cell(31, 31)}

NextLine ==
  \/ \E at \in LineCells : onMouseDown(at) /\ TickAt(MaxLineEvents, at)
  \/ \E at \in LineCells : onMouseMove(at) /\ TickAt(MaxLineEvents, at)
  \/ onMouseUp /\ Tick(MaxLineEvents)

SpecLine == Init /\ [][NextLine]_vars

\* ------------------------------------------------------------- saving a file
\* Pencil and eraser presses around a save; the runs explored have one
\* savePng call in flight at a time, answered with a file path, with a
\* cancelled dialog or with an error.
NextSave ==
  \/ \E t \in {"pencil", "eraser"} : setTool(t) /\ Tick(MaxSaveEvents)
  \/ \E at \in EditCells : onMouseDown(at) /\ TickAt(MaxSaveEvents, at)
  \/ onMouseUp /\ Tick(MaxSaveEvents)
  \/ \E hasContext \in BOOLEAN :
       /\ saveRequest = Null
       /\ performSaveRequest(hasContext)
       /\ Tick(MaxSaveEvents)
  \/ \E result \in {"saved", "canceled", "failed"} :
       /\ saveRequest # Null
       /\ performSaveResponse(result)
       /\ Tick(MaxSaveEvents)

SpecSave == Init /\ [][NextSave]_vars

\* ------------------------------------------------- cancelling a held drag
\* The session after a pencil dot at (0,0), key V, a click on (0,0) that
\* selects the first tile, and Ctrl+C; the tool is then any of three.
InitCancel ==
  /\ canvasSize = DEFAULT_CANVAS_SIZE
  /\ pendingCanvasSize = ToText(DEFAULT_CANVAS_SIZE)
  /\ gridSpacing = DEFAULT_GRID_SPACING
  /\ pixels = Overlay(createEmptyPixels(DEFAULT_CANVAS_SIZE),
                      [i \in {PixelIndex(0, 0, DEFAULT_CANVAS_SIZE)} |-> <<0, 0, 0, 255>>])
  /\ selectedColor = DEFAULT_PALETTE[1]
  /\ tool \in {"select", "pencil", "eraser"}
  /\ selection = Some(Rect(0, 0, DEFAULT_GRID_SPACING, DEFAULT_GRID_SPACING))
  /\ hasUnsavedChanges = TRUE
  /\ drawState = IdleDrawState
  /\ selectionClipboard =
       Some([width |-> DEFAULT_GRID_SPACING, height |-> DEFAULT_GRID_SPACING,
             pixels |-> Overlay(NewArray(DEFAULT_GRID_SPACING * DEFAULT_GRID_SPACING * 4),
                                [i \in {0} |-> <<0, 0, 0, 255>>]),
             sourceX |-> 0, sourceY |-> 0])
  /\ floatingPaste = Null
  /\ undoStack = <<createEmptyPixels(DEFAULT_CANVAS_SIZE), pixels>>
  /\ lastEvent = "start"
  /\ hadFloat = FALSE
  /\ pointer = Null
  /\ opened = Null
  /\ saveRequest = Null
  /\ savedPixels = createEmptyPixels(DEFAULT_CANVAS_SIZE)
  /\ cancelled = FALSE
  /\ events = 0

\* Paste, drag and Escape from there.
NextCancel ==
  \/ pasteSelection /\ Tick(MaxCancelEvents)
  \/ \E at \in PointerCells :
       /\ tool # "fill"
       /\ onMouseDown(at)
       /\ TickAt(MaxCancelEvents, at)
  \/ \E at \in PointerCells : onMouseMove(at) /\ TickAt(MaxCancelEvents, at)
  \/ onMouseUp /\ Tick(MaxCancelEvents)
  \/ onEscape /\ Tick(MaxCancelEvents)

SpecCancel == InitCancel /\ [][NextCancel]_vars

\* ------------------------------------------------------ a long run of strokes
\* The top row as it looks with its first k cells pencilled in the start colour.
RowBuffer(k) ==
  Overlay(createEmptyPixels(DEFAULT_CANVAS_SIZE),
          [i \in 0 .. k - 1 |-> PaintBytes(DEFAULT_PALETTE[1])])

\* Number of painted pixels.
Dots == Cardinality(DOMAIN pixels.px)

\* The user dots the top row from the left, one new cell per press, releases
\* after each press, and from the first undo on only undoes.
NextDot == Cell(Dots, 0)

UndoEvents == {"undo", "undo:empty"}

NextUndo ==
  \/ /\ ~drawState.active
     /\ lastEvent \notin UndoEvents
     /\ onMouseDown(NextDot)
     /\ TickAt(MaxUndoEvents, NextDot)
  \/ drawState.active /\ onMouseUp /\ Tick(MaxUndoEvents)
  \/ ~drawState.active /\ doUndo /\ Tick(MaxUndoEvents)

SpecUndo == Init /\ [][NextUndo]_vars

\* ===================================================================== claims
\* The program state: every variable but those that only record the run.
state ==
  <<canvasSize, pendingCanvasSize, gridSpacing, pixels, selectedColor, tool,
    selection, hasUnsavedChanges, drawState, selectionClipboard, floatingPaste,
    undoStack>>

EscapeEvents == {"escape:cancel", "escape:deselect", "escape:none"}

EnterEvents == {"enter:finalize", "enter:none"}

\* The floating block blitted on its base at its current position.
FloatComposite(f) ==
  blitBlockOnCanvas(f.basePixels, canvasSize, f.pixels, f.width, f.height, f.x, f.y)

\* C1: in every reachable state with a floating block, the pixel buffer equals
\* blit(float.basePixels, float.pixels, float.x, float.y), also after tool
\* switches and pastes made while a pointer gesture is in progress.
C1_FloatIsComposite ==
  floatingPaste # Null => pixels = FloatComposite(Val(floatingPaste))

\* C2: a floating block records, when paste or a lift creates it, the pixels,
\* the selection and the tool of that moment and keeps them while it exists;
\* Escape with a floating block installs exactly these three and leaves no
\* floating block.
C2_Step ==
  /\ lastEvent' \in {"paste", "down:lift"} =>
       /\ floatingPaste' # Null
       /\ Val(floatingPaste').restorePixels = pixels
       /\ Val(floatingPaste').restoreSelection = selection
       /\ Val(floatingPaste').restoreTool = tool
  /\ (floatingPaste # Null /\ floatingPaste' # Null
      /\ lastEvent' \notin {"paste", "down:lift"}) =>
       /\ Val(floatingPaste').restorePixels = Val(floatingPaste).restorePixels
       /\ Val(floatingPaste').restoreSelection = Val(floatingPaste).restoreSelection
       /\ Val(floatingPaste').restoreTool = Val(floatingPaste).restoreTool
  /\ (floatingPaste # Null /\ lastEvent' \in EscapeEvents) =>
       /\ lastEvent' = "escape:cancel"
       /\ pixels' = Val(floatingPaste).restorePixels
       /\ selection' = Val(floatingPaste).restoreSelection
       /\ tool' = Val(floatingPaste).restoreTool
       /\ floatingPaste' = Null

C2_EscapeRestores == [][C2_Step]_vars

\* Copy, deselect, paste with another tool armed, Escape: the absent selection
\* and the pre-paste tool are back.
C2_Witness ==
  /\ lastEvent = "escape:cancel"
  /\ selection = Null
  /\ selectionClipboard # Null
  /\ floatingPaste = Null

\* C3 as stated: right after the release that ends a move-drag no floating
\* block exists.
C3_ReleaseCommits == lastEvent = "up:placed" => floatingPaste = Null

\* C3 as amended: the release that ends a move-drag changes neither the pixels
\* nor the selection nor the floating block, which stays where it was dragged;
\* it only resets the gesture, and an Escape right after it still rolls back
\* to the block's restore snapshot.
C3_Step ==
  /\ lastEvent' = "up:placed" =>
       /\ floatingPaste # Null
       /\ floatingPaste' = floatingPaste
       /\ pixels' = pixels
       /\ selection' = selection
       /\ drawState' = IdleDrawState
  /\ (lastEvent = "up:placed" /\ lastEvent' \in EscapeEvents) =>
       /\ pixels' = Val(floatingPaste).restorePixels
       /\ selection' = Val(floatingPaste).restoreSelection
       /\ floatingPaste' = Null

C3_ReleaseKeepsFloat == [][C3_Step]_vars

\* A lifted tile dragged by one cell and released: still floating.
C3_Witness ==
  /\ lastEvent = "up:placed"
  /\ floatingPaste # Null
  /\ Val(floatingPaste).restoreSelection # selection
  /\ ~drawState.active

\* C4: Enter with a floating block changes neither pixels nor selection,
\* removes the floating block and marks the document dirty; Enter without a
\* floating block changes nothing.
C4_Step ==
  /\ (floatingPaste # Null /\ lastEvent' \in EnterEvents) =>
       /\ lastEvent' = "enter:finalize"
       /\ pixels' = pixels
       /\ selection' = selection
       /\ floatingPaste' = Null
       /\ hasUnsavedChanges'
  /\ (floatingPaste = Null /\ lastEvent' \in EnterEvents) =>
       /\ lastEvent' = "enter:none"
       /\ state' = state

C4_EnterFinalizes == [][C4_Step]_vars

\* A pasted block with a painted pixel, finalized: block and selection stay.
C4_Witness ==
  /\ lastEvent = "enter:finalize"
  /\ hadFloat
  /\ floatingPaste = Null
  /\ selection # Null
  /\ pixels # createEmptyPixels(canvasSize)
  /\ hasUnsavedChanges

\* TRUE when the selection rectangle lies inside the canvas.
InBounds(sel, size) ==
  /\ sel.x >= 0 /\ sel.y >= 0 /\ sel.w > 0 /\ sel.h > 0
  /\ sel.x + sel.w <= size /\ sel.y + sel.h <= size

\* The cell of pixel index i on a canvas of the given size.
CellOf(i, size) == Cell(i % size, i \div size)

\* TRUE when the two buffers agree on every pixel outside the selection.
SameOutside(a, b, sel, size) ==
  \A i \in DOMAIN a.px \cup DOMAIN b.px :
    ~pointInSelection(CellOf(i, size), sel) => ReadPx(a, i) = ReadPx(b, i)

\* TRUE when every pixel of the selection is transparent in the buffer.
ClearedInside(a, sel, size) ==
  \A i \in DOMAIN a.px : ~pointInSelection(CellOf(i, size), sel)

ResetEvents == {"resize", "clear", "delete", "load", "undo"}

\* C5: resize, clear, delete-selection, a successful load and a successful
\* undo leave no floating block, and what they install is their own result
\* computed from the live state, not the block's restore snapshot: the tool
\* stays (a load may set it from the file), the selection stays or is dropped,
\* and the pixels are the emptied canvas, the live pixels with the selection
\* zeroed, the popped snapshot, or the loaded image.
C5_Step ==
  /\ lastEvent' \in ResetEvents => floatingPaste' = Null
  /\ lastEvent' = "resize" =>
       /\ pixels' = createEmptyPixels(canvasSize')
       /\ selection' = Null
       /\ tool' = tool
  /\ lastEvent' = "clear" =>
       /\ tool' = tool
       /\ selection' = selection
       /\ selection = Null => pixels' = createEmptyPixels(canvasSize)
       /\ (selection # Null /\ InBounds(Val(selection), canvasSize)) =>
            /\ SameOutside(pixels', pixels, selection, canvasSize)
            /\ ClearedInside(pixels', selection, canvasSize)
  /\ lastEvent' = "delete" =>
       /\ tool' = tool
       /\ selection # Null
       /\ selection' = selection
       /\ InBounds(Val(selection), canvasSize) =>
            /\ SameOutside(pixels', pixels, selection, canvasSize)
            /\ ClearedInside(pixels', selection, canvasSize)
  /\ lastEvent' = "undo" =>
       /\ undoStack # <<>>
       /\ pixels' = undoStack[Len(undoStack)]
       /\ selection' = selection
       /\ tool' = tool
  /\ lastEvent' = "load" =>
       /\ selection' = Null
       /\ undoStack' = <<>>
       /\ pixels'.len = canvasSize' * canvasSize' * 4

C5_ResetsDropFloat == [][C5_Step]_vars

\* A load that found a floating block.
C5_Witness ==
  /\ lastEvent = "load"
  /\ hadFloat
  /\ floatingPaste = Null

\* The history after one more snapshot.
Pushed(stack, buf) ==
  IF Len(stack) = MAX_UNDO THEN Append(Tail(stack), buf) ELSE Append(stack, buf)

PushEvents ==
  {"down:draw", "down:select", "down:fill", "down:lift", "clear", "delete", "paste"}

\* Presses so far in the long run of strokes.
Pushes == IF lastEvent \in UndoEvents THEN (events + Dots) \div 3 ELSE Dots

\* C6: the undo history never holds more than 40 snapshots; a push appends the
\* live buffer and, on a full history, drops the oldest snapshot; an undo
\* removes the newest snapshot and makes it the live buffer.  In the long run
\* of strokes the history is at every moment the most recent snapshots in push
\* order, and after 45 pushes the undos never get below the sixth pushed
\* buffer.
C6_UndoIsBoundedStack ==
  /\ [](Len(undoStack) <= MAX_UNDO)
  /\ [][lastEvent' \in PushEvents => undoStack' = Pushed(undoStack, pixels)]_vars
  /\ [][lastEvent' = "undo" =>
          /\ undoStack # <<>>
          /\ pixels' = undoStack[Len(undoStack)]
          /\ undoStack' = SubSeq(undoStack, 1, Len(undoStack) - 1)]_vars
  /\ [](\A k \in 1 .. Len(undoStack) :
          undoStack[k] = RowBuffer(Dots - Len(undoStack) + k - 1))
  /\ [](lastEvent \notin UndoEvents => Len(undoStack) = Min(Dots, MAX_UNDO))
  /\ [](lastEvent \in UndoEvents =>
          /\ Dots + MAX_UNDO >= Pushes
          /\ Len(undoStack) = Dots - Max(0, Pushes - MAX_UNDO))

\* 45 pushes, then 40 undos: the history is empty and the buffer is the sixth
\* pushed one.
C6_Witness ==
  /\ lastEvent = "undo"
  /\ Pushes = 45
  /\ Dots = 5
  /\ undoStack = <<>>
  /\ pixels = RowBuffer(5)

MutatingEvents == {"down:draw", "down:fill", "clear", "delete", "paste", "down:lift"}

\* C7: a pencil or eraser press, a fill that changes something, clear,
\* delete-selection, paste and the lift that starts a floating move push
\* exactly one snapshot, the buffer as it was before the action; the moves and
\* the release of the gesture push nothing; an undo installs the newest
\* snapshot.
C7_Step ==
  /\ lastEvent' \in MutatingEvents => undoStack' = Pushed(undoStack, pixels)
  /\ lastEvent' \in {"move:draw", "move:float", "up", "up:placed"} =>
       undoStack' = undoStack
  /\ lastEvent' = "undo" =>
       /\ pixels' = undoStack[Len(undoStack)]
       /\ Len(undoStack') = Len(undoStack) - 1

C7_OneSnapshotPerAction == [][C7_Step]_vars

\* A fill that changed the buffer, with the buffer of before on the history.
C7_Witness ==
  /\ lastEvent = "down:fill"
  /\ undoStack # <<>>
  /\ undoStack[Len(undoStack)] # pixels

\* C8: in every reachable state the selection is absent or a rectangle inside
\* the canvas with a positive width and height.
C8_SelectionInBounds == selection # Null => InBounds(Val(selection), canvasSize)

BufferBytes == canvasSize * canvasSize * 4

\* C9: the live buffer, every snapshot of the undo history and the restore and
\* base buffers of a floating block have canvasSize * canvasSize * 4 bytes.
C9_BufferLengths ==
  /\ pixels.len = BufferBytes
  /\ \A k \in 1 .. Len(undoStack) : undoStack[k].len = BufferBytes
  /\ floatingPaste # Null =>
       /\ Val(floatingPaste).restorePixels.len = BufferBytes
       /\ Val(floatingPaste).basePixels.len = BufferBytes

\* An undo on a canvas that was resized.
C9_Witness ==
  /\ lastEvent = "undo"
  /\ canvasSize # DEFAULT_CANVAS_SIZE

\* C10: with a selection active, a pencil or eraser stroke, a fill and a clear
\* leave every pixel outside the selection rectangle as it was.
C10_Step ==
  (selection # Null /\ lastEvent' \in {"down:draw", "move:draw", "down:fill", "clear"}) =>
    SameOutside(pixels', pixels, selection, canvasSize)

C10_SelectionMasksWrites == [][C10_Step]_vars

FillEvents == {"down:fill", "down:fillNone"}

\* The pixel under cell c in the live buffer.
PixelAt(c) == ReadPx(pixels, PixelIndex(c.x, c.y, canvasSize))

\* TRUE when a fill press on cell c has nothing to fill: c is outside the
\* active selection or already has the replacement colour.
NothingToFill(c) ==
  \/ selection # Null /\ ~pointInSelection(c, selection)
  \/ PixelAt(c) = PaintBytes(selectedColor)

\* C11: a fill press on a cell outside the active selection, or on a pixel
\* that already has the replacement colour, pushes no snapshot and leaves the
\* pixels and the selection as they were; a fill press pushes a snapshot (the
\* buffer of before, once) only when it changed the buffer.
C11_Step ==
  lastEvent' \in FillEvents =>
    /\ NothingToFill(Val(pointer')) <=> lastEvent' = "down:fillNone"
    /\ lastEvent' = "down:fillNone" =>
         /\ undoStack' = undoStack
         /\ pixels' = pixels
         /\ selection' = selection
    /\ lastEvent' = "down:fill" =>
         /\ pixels' # pixels
         /\ undoStack' = Pushed(undoStack, pixels)
         /\ selection' = selection

C11_FillNoOpPushesNothing == [][C11_Step]_vars

\* A second fill press on a pixel the first fill coloured: an earlier
\* snapshot exists and no new one was added.
C11_Witness ==
  /\ lastEvent = "down:fillNone"
  /\ selection = Null \/ pointInSelection(Val(pointer), selection)
  /\ PixelAt(Val(pointer)) = PaintBytes(selectedColor)
  /\ Len(undoStack) = 1

PasteEvents == {"paste", "paste:outside", "paste:noClipboard"}

\* Where the claim places a pasted w x h block copied from (sourceX, sourceY).
ClaimedPasteRect(clip, sel, size) ==
  LET x == IF sel # Null THEN Val(sel).x ELSE Min(clip.sourceX + 1, size - 1)
      y == IF sel # Null THEN Val(sel).y ELSE Min(clip.sourceY + 1, size - 1)
  IN  Rect(x, y, Min(clip.width, size - x), Min(clip.height, size - y))

\* TRUE when the rectangle `at` of the buffer holds the top-left part of the
\* clipboard block.
HoldsBlock(buf, clip, at, size) ==
  \A o \in BlockOffsets(at.w, at.h) :
    ReadPx(buf, PixelIndex(at.x + o.x, at.y + o.y, size)) =
      ReadPx(clip.pixels, o.y * clip.width + o.x)

\* C12: a paste of a clipboard block of w x h pixels (w, h > 0) succeeds; the
\* block goes to the selection's origin if a selection is active and to
\* (min(sourceX+1, N-1), min(sourceY+1, N-1)) otherwise, truncated to
\* min(w, N-x) by min(h, N-y); one snapshot is pushed, the truncated block
\* overwrites that rectangle and nothing else, a floating block exists at
\* that position, the tool is select and the selection is the footprint.
C12_Step ==
  (/\ lastEvent' \in PasteEvents
   /\ selectionClipboard # Null
   /\ Val(selectionClipboard).width > 0
   /\ Val(selectionClipboard).height > 0) =>
    LET clip == Val(selectionClipboard)
        at == ClaimedPasteRect(clip, selection, canvasSize)
    IN  /\ lastEvent' = "paste"
        /\ undoStack' = Pushed(undoStack, pixels)
        /\ floatingPaste' # Null
        /\ Val(floatingPaste').x = at.x
        /\ Val(floatingPaste').y = at.y
        /\ Val(floatingPaste').width = at.w
        /\ Val(floatingPaste').height = at.h
        /\ tool' = "select"
        /\ selection' = Some(at)
        /\ HoldsBlock(pixels', clip, at, canvasSize)
        /\ SameOutside(pixels', pixels, Some(at), canvasSize)

C12_PastePlacement == [][C12_Step]_vars

CopyEvents == {"copy", "copy:noSelection"}

DeleteEvents == {"delete", "delete:noSelection"}

\* C13: copy without a selection, delete-selection without a selection, paste
\* with an empty clipboard and undo with an empty history change nothing: the
\* pixels, the selection, the clipboard, the floating block, the tool and the
\* undo history (and the rest of the editor state) stay as they were.
C13_Step ==
  /\ (selection = Null /\ lastEvent' \in CopyEvents) =>
       (lastEvent' = "copy:noSelection" /\ state' = state)
  /\ (selection = Null /\ lastEvent' \in DeleteEvents) =>
       (lastEvent' = "delete:noSelection" /\ state' = state)
  /\ (selectionClipboard = Null /\ lastEvent' \in PasteEvents) =>
       (lastEvent' = "paste:noClipboard" /\ state' = state)
  /\ (undoStack = <<>> /\ lastEvent' \in UndoEvents) =>
       (lastEvent' = "undo:empty" /\ state' = state)

C13_NoOpsChangeNothing == [][C13_Step]_vars

\* A delete-selection without a selection on a canvas that has strokes and
\* history to lose.
C13_Witness ==
  /\ lastEvent = "delete:noSelection"
  /\ selection = Null
  /\ undoStack # <<>>
  /\ pixels # createEmptyPixels(canvasSize)

UpEvents == {"up", "up:tile", "up:deselect", "up:placed"}

\* A select press outside the selection is held and no other cell was entered.
PendingClear ==
  /\ tool = "select"
  /\ drawState.active
  /\ drawState.clearSelectionOnMouseUp
  /\ drawState.selectionStart # Null

\* The press outside an existing selection leaves the selection and arms the
\* clear.
C14_Press ==
  (/\ lastEvent' = "down:select"
   /\ selection # Null
   /\ ~pointInSelection(Val(pointer'), selection)) =>
    /\ selection' = selection
    /\ drawState'.clearSelectionOnMouseUp
    /\ drawState'.selectionStart = pointer'

\* A move event for the pressed cell itself leaves the selection.
C14_SameCellMove ==
  (PendingClear /\ lastEvent' = "move:select" /\ pointer' = drawState.selectionStart) =>
    selection' = selection

\* A move to another cell cancels the clear and selects the spanned rectangle.
C14_OtherCellMove ==
  (PendingClear /\ lastEvent' = "move:select" /\ pointer' # drawState.selectionStart) =>
    LET start == Val(drawState.selectionStart)
        cur == Val(pointer')
    IN  /\ ~drawState'.clearSelectionOnMouseUp
        /\ selection' = Some(Rect(Min(start.x, cur.x), Min(start.y, cur.y),
                                   Abs(cur.x - start.x) + 1, Abs(cur.y - start.y) + 1))

\* The release deselects while the clear is pending and keeps a dragged
\* rectangle.
C14_Release ==
  /\ (PendingClear /\ lastEvent' \in UpEvents) => selection' = Null
  /\ (/\ tool = "select"
      /\ drawState.selectionStart # Null
      /\ drawState.selectionMoved
      /\ lastEvent' \in UpEvents) => selection' = selection

\* C14: with the select tool, a press outside the existing selection does
\* not change the selection; neither do move events for the pressed cell;
\* a release before another cell is entered leaves no selection; a move to
\* another cell cancels the pending clear and makes the selection the
\* normalized rectangle spanning the press cell and the current cell, and
\* the release keeps it.
C14_PendingClear ==
  [][C14_Press /\ C14_SameCellMove /\ C14_OtherCellMove /\ C14_Release]_vars

\* A select press is held on its cell with no clear pending.
PendingTile ==
  /\ tool = "select"
  /\ drawState.active
  /\ drawState.selectionStart # Null
  /\ ~drawState.selectionMoved
  /\ ~drawState.clearSelectionOnMouseUp

\* The grid tile of cell c for spacing g on a canvas of side n.
TileOf(c, g, n) ==
  Rect((c.x \div g) * g, (c.y \div g) * g,
       Min(g, n - (c.x \div g) * g), Min(g, n - (c.y \div g) * g))

\* C15: with the select tool and no clear pending, releasing a press on cell
\* c before another cell is entered sets the selection to the grid tile of c,
\* origin (floor(c.x/g)*g, floor(c.y/g)*g) and extent (min(g, N-originX),
\* min(g, N-originY)); the tile contains c, is aligned to the grid and ends
\* at the latest at the far edge of the canvas.
C15_Step ==
  (PendingTile /\ lastEvent' \in UpEvents) =>
    LET c == Val(drawState.selectionStart)
        tile == TileOf(c, gridSpacing, canvasSize)
    IN  /\ lastEvent' = "up:tile"
        /\ selection' = Some(tile)
        /\ pointInSelection(c, selection')
        /\ tile.x % gridSpacing = 0
        /\ tile.y % gridSpacing = 0
        /\ tile.x + tile.w <= canvasSize
        /\ tile.y + tile.h <= canvasSize

C15_ClickSelectsTile == [][C15_Step]_vars

DownEvents ==
  {"down:outside", "down:continue", "down:lift", "down:fill", "down:fillNone",
   "down:select", "down:draw"}

\* TRUE when block holds, row by row, the pixels of the buffer inside sel.
IsBlockOf(block, buf, sel, size) ==
  /\ block.len = sel.w * sel.h * 4
  /\ \A o \in BlockOffsets(sel.w, sel.h) :
       ReadPx(block, o.y * sel.w + o.x) =
         ReadPx(buf, PixelIndex(sel.x + o.x, sel.y + o.y, size))

\* C16: a press with the select tool on a canvas cell inside the active
\* selection, with no floating block, starts a move-drag: one snapshot is
\* pushed, a floating block is created at the selection whose block is the
\* pixels inside the selection and whose base is the buffer with exactly the
\* selection's footprint transparent, the selection stays, and the buffer
\* right after the press equals the buffer before it.
C16_Step ==
  (/\ tool = "select"
   /\ floatingPaste = Null
   /\ selection # Null
   /\ lastEvent' \in DownEvents
   /\ getCellFromEvent(Val(pointer'), canvasSize) # Null
   /\ pointInSelection(Val(pointer'), selection)) =>
    LET sel == Val(selection)
    IN  /\ lastEvent' = "down:lift"
        /\ undoStack' = Pushed(undoStack, pixels)
        /\ floatingPaste' # Null
        /\ Val(floatingPaste').x = sel.x
        /\ Val(floatingPaste').y = sel.y
        /\ Val(floatingPaste').width = sel.w
        /\ Val(floatingPaste').height = sel.h
        /\ IsBlockOf(Val(floatingPaste').pixels, pixels, sel, canvasSize)
        /\ Val(floatingPaste').basePixels.len = pixels.len
        /\ SameOutside(Val(floatingPaste').basePixels, pixels, selection, canvasSize)
        /\ ClearedInside(Val(floatingPaste').basePixels, selection, canvasSize)
        /\ drawState'.active
        /\ drawState'.moveStartCell = pointer'
        /\ selection' = selection
        /\ pixels' = pixels

C16_PressInsideLifts == [][C16_Step]_vars

\* v limited to lo .. hi, the lower limit winning when hi < lo.
Clamp(v, lo, hi) == Max(lo, Min(v, hi))

\* Where the claim puts a width x height block dragged from `origin` when the
\* pointer went from cell `press` to cell `cur`.
ClaimedMoveTarget(origin, press, cur, width, height, size) ==
  Cell(Clamp(origin.x + cur.x - press.x, 0, size - width),
       Clamp(origin.y + cur.y - press.y, 0, size - height))

\* C17: after every pointer-move of a move-drag the floating block is at
\* (clamp(originX + cur.x - press.x, 0, N - width), clamp(originY + cur.y -
\* press.y, 0, N - height)), its footprint lies inside the canvas, and the
\* buffer and the selection are those of the block blitted on its base at
\* that position: they depend on the press cell, the origin at press time
\* and the current cell only, not on the moves in between.
C17_Step ==
  lastEvent' = "move:float" =>
    LET f == Val(floatingPaste')
        at == ClaimedMoveTarget(Val(drawState.moveStartOrigin), Val(drawState.moveStartCell),
                                Val(pointer'), f.width, f.height, canvasSize)
    IN  /\ f.x = at.x
        /\ f.y = at.y
        /\ InBounds(Rect(f.x, f.y, f.width, f.height), canvasSize)
        /\ selection' = Some(Rect(at.x, at.y, f.width, f.height))
        /\ pixels' = blitBlockOnCanvas(f.basePixels, canvasSize, f.pixels, f.width,
                                        f.height, at.x, at.y)
        /\ f.pixels = Val(floatingPaste).pixels
        /\ f.basePixels = Val(floatingPaste).basePixels
        /\ drawState' = drawState

C17_MoveDragPosition == [][C17_Step]_vars

\* The rectangle a floating block covers.
Footprint(f) == Rect(f.x, f.y, f.width, f.height)

\* C18: in every reachable state with a floating block the selection is the
\* block's footprint {x: float.x, y: float.y, w: float.width, h:
\* float.height}, whatever the interleaving of pointer gestures and keys.
C18_SelectionTracksFloat ==
  floatingPaste # Null => selection = Some(Footprint(Val(floatingPaste)))

\* C19: a tool switch (toolbar button or B / E / G / V key) changes the tool
\* and nothing else: the selection, the pixels, the undo history, the
\* clipboard and a floating block stay as they were, in every state.
C19_Step ==
  lastEvent' = "tool" =>
    /\ tool' \in Tools
    /\ selection' = selection
    /\ pixels' = pixels
    /\ undoStack' = undoStack
    /\ selectionClipboard' = selectionClipboard
    /\ floatingPaste' = floatingPaste
    /\ drawState' = drawState
    /\ canvasSize' = canvasSize
    /\ gridSpacing' = gridSpacing
    /\ selectedColor' = selectedColor
    /\ hasUnsavedChanges' = hasUnsavedChanges

C19_ToolSwitchOnlySetsTool == [][C19_Step]_vars

\* A switch away from the select tool with a pasted block floating: the
\* block, the selection, the clipboard and the history are all still there.
C19_Witness ==
  /\ lastEvent = "tool"
  /\ tool # "select"
  /\ hadFloat
  /\ floatingPaste # Null
  /\ selection # Null
  /\ selectionClipboard # Null
  /\ undoStack # <<>>

ResizeEvents == {"resize", "resize:notNumeric"}

\* TRUE for a text that is a decimal numeral: one digit or more, digits only.
IsNumeral(text) == text # <<>> /\ \A k \in 1 .. Len(text) : IsDigit(text[k])

RECURSIVE NumeralValue(_)
\* The number a decimal numeral denotes.
NumeralValue(text) ==
  IF text = <<>> THEN 0
  ELSE 10 * NumeralValue(SubSeq(text, 1, Len(text) - 1)) + text[Len(text)]

\* TRUE for a text that does not start as a number.
IsNotNumeric(text) == text = <<>> \/ ~IsDigit(text[1])

\* C20: applying a numeric size s makes the canvas side s clamped into
\* [8, 1024] and the buffer all-transparent with N * N * 4 bytes, and leaves
\* no selection, no floating block and no undo history, so an undo right
\* after it is the empty-history no-op; applying a non-numeric size changes
\* nothing.
C20_Step ==
  /\ (lastEvent' \in ResizeEvents /\ IsNumeral(pendingCanvasSize)) =>
       /\ lastEvent' = "resize"
       /\ canvasSize' = Clamp(NumeralValue(pendingCanvasSize), 8, 1024)
       /\ pixels'.len = canvasSize' * canvasSize' * 4
       /\ DOMAIN pixels'.px = {}
       /\ selection' = Null
       /\ floatingPaste' = Null
       /\ undoStack' = <<>>
  /\ (lastEvent' \in ResizeEvents /\ IsNotNumeric(pendingCanvasSize)) =>
       /\ lastEvent' = "resize:notNumeric"
       /\ state' = state
  /\ (lastEvent = "resize" /\ lastEvent' \in UndoEvents) =>
       /\ lastEvent' = "undo:empty"
       /\ state' = state

C21_Step ==
  (selection # Null /\ lastEvent' \in DeleteEvents) =>
    /\ lastEvent' = "delete"
    /\ undoStack' = Pushed(undoStack, pixels)
    /\ floatingPaste' = Null
    /\ pixels'.len = pixels.len
    /\ ClearedInside(pixels', selection, canvasSize)
    /\ SameOutside(pixels', pixels, selection, canvasSize)

C21_DeleteClearsSelection == [][C21_Step]_vars

\* C22: clear pushes one snapshot and leaves no floating block; with a
\* selection the buffer becomes what delete-selection makes of it and the
\* selection rectangle stays; without a selection the buffer becomes
\* all-transparent and the selection stays absent.
C22_Step ==
  lastEvent' = "clear" =>
    /\ undoStack' = Pushed(undoStack, pixels)
    /\ floatingPaste' = Null
    /\ selection' = selection
    /\ selection # Null =>
         pixels' = ZeroRect(pixels, Val(selection), canvasSize, FALSE)
    /\ selection = Null =>
         /\ pixels'.len = canvasSize * canvasSize * 4
         /\ DOMAIN pixels'.px = {}

C22_ClearLikeDelete == [][C22_Step]_vars

\* A clear that found a floating block and removed painted pixels from the
\* selection, which is still there.
C22_Witness ==
  /\ lastEvent = "clear"
  /\ hadFloat
  /\ floatingPaste = Null
  /\ selection # Null
  /\ undoStack # <<>>
  /\ undoStack[Len(undoStack)] # pixels

\* The pixel of cell c; a cell outside the canvas has none and counts as
\* transparent.
CellPixel(buf, c, size) ==
  IF c.x >= 0 /\ c.x < size /\ c.y >= 0 /\ c.y < size
  THEN ReadPx(buf, PixelIndex(c.x, c.y, size))
  ELSE Transparent

\* C23, the copy: with a selection, copy stores the pixels of the selection's
\* cells as they are, with the selection's origin and size, and changes
\* nothing else.
C23_Copy ==
  (selection # Null /\ lastEvent' \in CopyEvents) =>
    LET sel == Val(selection)
        clip == Val(selectionClipboard')
    IN  /\ lastEvent' = "copy"
        /\ selectionClipboard' # Null
        /\ clip.sourceX = sel.x
        /\ clip.sourceY = sel.y
        /\ clip.width = sel.w
        /\ clip.height = sel.h
        /\ \A o \in BlockOffsets(sel.w, sel.h) :
             ReadPx(clip.pixels, o.y * sel.w + o.x) =
               CellPixel(pixels, Cell(sel.x + o.x, sel.y + o.y), canvasSize)
        /\ <<canvasSize, pixels, selection, tool, drawState, floatingPaste, undoStack>>' =
             <<canvasSize, pixels, selection, tool, drawState, floatingPaste, undoStack>>

\* C23, the snapshot: no other handler changes or empties the clipboard, and
\* a paste puts the top-left part of the clipboard block into its floating
\* block.
C23_Keep ==
  /\ lastEvent' # "copy" => selectionClipboard' = selectionClipboard
  /\ lastEvent' = "paste" =>
       LET f == Val(floatingPaste')
           clip == Val(selectionClipboard)
       IN  \A o \in BlockOffsets(f.width, f.height) :
             ReadPx(f.pixels, o.y * f.width + o.x) =
               ReadPx(clip.pixels, o.y * clip.width + o.x)

\* C23: copy stores the selection's pixels of the moment with sourceX/sourceY
\* = the selection's origin and changes nothing else; the clipboard is a
\* snapshot that later edits, pastes, clears, deletes, undos, resizes and
\* loads neither change nor empty, so every later paste reads the same block.
C23_ClipboardSnapshot == [][C23_Copy /\ C23_Keep]_vars

\* ---------------------------------------------------------------- C24
DrawEvents == {"down:draw", "move:draw"}

\* TRUE when the cell is one of the cells of the raster line.
OnLine(c, line) == \E k \in 1 .. Len(line) : line[k] = c

\* The pixel indices a stroke step can concern: those either buffer stores
\* and those of the line's cells that lie on the canvas.
StrokeIndices(a, b, line, size) ==
  DOMAIN a.px \cup DOMAIN b.px \cup
  {PixelIndex(line[k].x, line[k].y, size) :
     k \in {j \in 1 .. Len(line) :
              line[j].x >= 0 /\ line[j].x < size /\ line[j].y >= 0 /\ line[j].y < size}}

\* C24: a pencil (eraser) press paints (erases) the pressed cell, and each move
\* of the gesture paints (erases) every cell of the raster line from the
\* previously recorded cell to the current cell; a cell outside an active
\* selection is skipped and every other pixel is unchanged.
C24_Step ==
  lastEvent' \in DrawEvents =>
    LET cur == Val(pointer')
        from == IF lastEvent' = "down:draw" \/ drawState.lastDrawCell = Null
                THEN cur
                ELSE Val(drawState.lastDrawCell)
        line == rasterLinePoints(from.x, from.y, cur.x, cur.y)
        ink == IF tool = "eraser" THEN Transparent ELSE PaintBytes(selectedColor)
    IN  /\ pixels'.len = pixels.len
        /\ \A i \in StrokeIndices(pixels, pixels', line, canvasSize) :
             LET c == CellOf(i, canvasSize)
             IN  ReadPx(pixels', i) =
                   IF /\ OnLine(c, line)
                      /\ selection = Null \/ pointInSelection(c, selection)
                   THEN ink
                   ELSE ReadPx(pixels, i)

C24_StrokePaintsLine == [][C24_Step]_vars

\* ---------------------------------------------------------------- C25
\* What Escape leaves alone whichever branch it takes.
EscapeFrame ==
  <<canvasSize, pendingCanvasSize, gridSpacing, selectedColor, hasUnsavedChanges,
    selectionClipboard, undoStack>>

\* C25: Escape with a floating block cancels it (pixels, selection and tool of
\* the block's restore snapshot, no block left) and does nothing else; without
\* a block and with a selection it clears the selection and changes neither
\* the pixels nor the undo history; with neither it changes nothing.  The
\* cancel with restore is taken only by Escape pressed while a block floats.
C25_Step ==
  /\ lastEvent' \in EscapeEvents =>
       /\ EscapeFrame' = EscapeFrame
       /\ IF floatingPaste # Null
          THEN /\ lastEvent' = "escape:cancel"
               /\ pixels' = Val(floatingPaste).restorePixels
               /\ selection' = Val(floatingPaste).restoreSelection
               /\ tool' = Val(floatingPaste).restoreTool
               /\ floatingPaste' = Null
               /\ drawState'.active = drawState.active
               /\ drawState'.selectionStart = drawState.selectionStart
               /\ drawState'.lastDrawCell = drawState.lastDrawCell
          ELSE IF selection # Null
          THEN /\ lastEvent' = "escape:deselect"
               /\ selection' = Null
               /\ UNCHANGED <<pixels, tool, floatingPaste, drawState>>
          ELSE /\ lastEvent' = "escape:none"
               /\ state' = state
  /\ lastEvent' = "escape:cancel" => floatingPaste # Null

C25_EscapePriority == [][C25_Step]_vars

\* Escape pressed with both a floating block and a selection: the block is
\* cancelled and the snapshot's selection is the selection again.
C25_Witness ==
  /\ lastEvent = "escape:cancel"
  /\ hadFloat
  /\ floatingPaste = Null
  /\ selection # Null
  /\ undoStack # <<>>

\* ---------------------------------------------------------------- C26
\* The canvas size as claimed: metadata canvasSize, else the legacy field of
\* older files, else the side of a square image, else the default; clamped.
ClaimedCanvasSize(resp) ==
  Clamp(IF resp.metaCanvasSize # Null THEN Val(resp.metaCanvasSize)
        ELSE IF resp.metaLegacyGrid # Null THEN Val(resp.metaLegacyGrid)
        ELSE IF resp.width = resp.height THEN resp.width
        ELSE DEFAULT_CANVAS_SIZE,
        MIN_CANVAS_SIZE, MAX_CANVAS_SIZE)

\* C26: after a PNG load the canvas size is the metadata's canvasSize when
\* present, else the legacy canvas-size field when present (legacy 128 gives
\* 128), else the image's dimension when it is square, else 256, clamped to
\* [8, 1024].
C26_LoadCanvasSize ==
  lastEvent = "load" => canvasSize = ClaimedCanvasSize(Val(opened))

\* ---------------------------------------------------------------- C27
LoadEvents == {"load", "load:aborted", "load:canceled", "load:failed"}

\* The document a load replaces or leaves alone.
Document == <<canvasSize, pixels, selection, undoStack, floatingPaste>>

\* C27: a load whose open dialog is cancelled, whose host returns no bytes or
\* whose PNG does not decode leaves canvas size, pixels, selection, undo
\* history and floating block as they were; only a load that succeeds
\* replaces them, and then there is no selection, no floating block and an
\* empty undo history.
C27_Step ==
  lastEvent' \in LoadEvents =>
    /\ Val(opened').open # "ok" => Document' = Document
    /\ lastEvent' # "load" => Document' = Document
    /\ lastEvent' = "load" =>
         /\ Val(opened').open = "ok"
         /\ selection' = Null
         /\ floatingPaste' = Null
         /\ undoStack' = <<>>
         /\ pixels'.len = canvasSize' * canvasSize' * 4
         /\ \A c \in Val(opened').painted :
              CellPixel(pixels', c, canvasSize') = <<0, 0, 0, 255>>
         /\ \A i \in DOMAIN pixels'.px : CellOf(i, canvasSize') \in Val(opened').painted

C27_FailedLoadKeepsDocument == [][C27_Step]_vars

\* A PNG that does not decode, opened while a lifted block floats over a
\* selection and the undo history holds the lift's snapshot.
C27_Witness ==
  /\ lastEvent = "load:failed"
  /\ hadFloat
  /\ floatingPaste # Null
  /\ selection # Null
  /\ undoStack # <<>>

\* ---------------------------------------------------------------- C28
\* The 4-neighbours of a cell that lie on the canvas and under the mask.
FillNeighbours(node, sel, size) ==
  {n \in {Cell(node.x - 1, node.y), Cell(node.x + 1, node.y),
          Cell(node.x, node.y - 1), Cell(node.x, node.y + 1)} :
     /\ n.x >= 0 /\ n.x < size /\ n.y >= 0 /\ n.y < size
     /\ sel = Null \/ pointInSelection(n, sel)}

\* The maximal 4-connected region around the frontier: the cells under the mask
\* that have the target colour and are linked to it through such cells.
RECURSIVE FillRegion(_, _, _, _, _, _)
FillRegion(frontier, filled, source, target, sel, size) ==
  LET take == {n \in frontier :
                 /\ n \notin filled
                 /\ sel = Null \/ pointInSelection(n, sel)
                 /\ ReadPx(source, PixelIndex(n.x, n.y, size)) = target}
  IN  IF take = {}
      THEN filled
      ELSE FillRegion(UNION {FillNeighbours(n, sel, size) : n \in take},
                      filled \cup take, source, target, sel, size)

\* C28: a fill press sets exactly the cells of the maximal 4-connected region
\* of the start cell (cells with the start cell's RGBA, inside the selection
\* and the canvas) to the replacement colour with alpha 255 and leaves every
\* other cell as it was, whatever the order of the visits.
C28_Step ==
  lastEvent' \in FillEvents =>
    \A region \in {FillRegion({Val(pointer')}, {}, pixels, PixelAt(Val(pointer')),
                              selection, canvasSize)} :
      /\ pixels'.len = pixels.len
      /\ \A i \in DOMAIN pixels.px \cup DOMAIN pixels'.px \cup
                  {PixelIndex(c.x, c.y, canvasSize) : c \in region} :
           ReadPx(pixels', i) =
             IF CellOf(i, canvasSize) \in region
             THEN PaintBytes(selectedColor)
             ELSE ReadPx(pixels, i)

C28_FillIsRegion == [][C28_Step]_vars

\* The selection (2,2,3,3) on an empty 16x16 canvas filled from (3,3):
\* nine cells hold ink, all in the selection, and (1,2) holds none.
C28_Witness ==
  /\ lastEvent = "down:fill"
  /\ canvasSize = 16
  /\ selection = Some(Rect(2, 2, 3, 3))
  /\ pointer = Some(Cell(3, 3))
  /\ undoStack = <<createEmptyPixels(16)>>
  /\ Cardinality(DOMAIN pixels.px) = 9
  /\ \A i \in DOMAIN pixels.px : pointInSelection(CellOf(i, 16), selection)
  /\ PixelAt(Cell(1, 2)) = Transparent

\* ---------------------------------------------------------------- C29
\* C29: a fill press that follows a fill from the same start cell, with the
\* same colour and selection, finds nothing to fill: the buffer stays the
\* result of the first fill and no second snapshot is pushed.
C29_Step ==
  (lastEvent = "down:fill" /\ lastEvent' \in FillEvents /\ pointer' = pointer) =>
    /\ lastEvent' = "down:fillNone"
    /\ pixels' = pixels
    /\ undoStack' = undoStack

C29_FillIdempotent == [][C29_Step]_vars

\* (3,3) walled in on all four sides, filled, and pressed again: the one
\* snapshot differs from the buffer in (3,3) alone.
C29_Witness ==
  /\ lastEvent = "down:fillNone"
  /\ events = 2
  /\ pointer = Some(Cell(3, 3))
  /\ Len(undoStack) = 1
  /\ PixelAt(Cell(3, 3)) = PaintBytes(selectedColor)
  /\ \A i \in DOMAIN pixels.px \cup DOMAIN undoStack[1].px :
       ReadPx(pixels, i) # ReadPx(undoStack[1], i) <=> CellOf(i, canvasSize) = Cell(3, 3)

\* ---------------------------------------------------------------- C30
\* C30: for cells (x0,y0) and (x1,y1) of the canvas rasterLinePoints ends and
\* yields a sequence that starts at (x0,y0), ends at (x1,y1), moves by at most
\* 1 in x and at most 1 in y (and never stays) from one cell to the next, and
\* has max(|x1-x0|, |y1-y0|) + 1 cells.  Stated of the line a pencil move
\* draws from the recorded cell to the pointer's cell.
C30_Step ==
  (/\ lastEvent' = "move:draw"
   /\ drawState.lastDrawCell # Null
   /\ getCellFromEvent(Val(drawState.lastDrawCell), canvasSize) # Null) =>
    \A a \in {Val(drawState.lastDrawCell)} : \A b \in {Val(pointer')} :
      \A line \in {rasterLinePoints(a.x, a.y, b.x, b.y)} :
        /\ line[1] = a
        /\ line[Len(line)] = b
        /\ \A k \in 2 .. Len(line) :
             /\ Abs(line[k].x - line[k - 1].x) <= 1
             /\ Abs(line[k].y - line[k - 1].y) <= 1
             /\ line[k] # line[k - 1]
        /\ Len(line) = Max(Abs(b.x - a.x), Abs(b.y - a.y)) + 1
        /\ (selection = Null /\ tool = "pencil") =>
             DOMAIN pixels'.px =
               DOMAIN pixels.px \cup
               {PixelIndex(line[k].x, line[k].y, canvasSize) : k \in 1 .. Len(line)}

C30_RasterLineShape == [][C30_Step]_vars

\* A pencil line of 41 cells from the left column to (40,13).
C30_Witness ==
  /\ lastEvent = "move:draw"
  /\ pointer = Some(Cell(40, 13))
  /\ drawState.lastDrawCell = Some(Cell(40, 13))
  /\ Cardinality(DOMAIN pixels.px) = 41
  /\ \E y \in 0 .. 4 : PixelAt(Cell(0, y)) = PaintBytes(selectedColor)

\* ---------------------------------------------------------------- C31
\* C31: an undo that finds a snapshot changes the pixels, the undo history and
\* the floating-block and unsaved-changes bookkeeping only; the selection and
\* the tool stay.  Right after a paste it brings back the pixels of before
\* the paste and keeps the selection on the pasted footprint and the select
\* tool.
C31_Step ==
  /\ lastEvent' = "undo" =>
       /\ selection' = selection
       /\ tool' = tool
       /\ UNCHANGED <<canvasSize, pendingCanvasSize, gridSpacing, selectedColor,
                      selectionClipboard>>
       /\ pixels' = undoStack[Len(undoStack)]
       /\ Len(undoStack') = Len(undoStack) - 1
  /\ (lastEvent = "paste" /\ lastEvent' \in UndoEvents) =>
       /\ lastEvent' = "undo"
       /\ pixels' = Val(floatingPaste).restorePixels
       /\ selection' = Some(Footprint(Val(floatingPaste)))
       /\ tool' = "select"
       /\ floatingPaste' = Null

C31_UndoKeepsSelectionAndTool == [][C31_Step]_vars

\* Undo that found a pasted or lifted block floating, with no gesture in
\* progress: the selection and the select tool are still there.
C31_Witness ==
  /\ lastEvent = "undo"
  /\ hadFloat
  /\ floatingPaste = Null
  /\ ~drawState.active
  /\ selection # Null
  /\ tool = "select"
  /\ selectionClipboard # Null

\* ---------------------------------------------------------------- C32
\* C32: Escape leaves the undo history alone.  The snapshot pushed when the
\* block began to float (paste or lift) is the buffer of that moment and is
\* still the newest entry after the cancel, where it equals the restored
\* buffer; an undo that follows the cancel takes it and shows the same pixels.
C32_Step ==
  /\ lastEvent' \in EscapeEvents => undoStack' = undoStack
  /\ lastEvent' \in {"paste", "down:lift"} =>
       /\ undoStack' = Pushed(undoStack, pixels)
       /\ Val(floatingPaste').restorePixels = pixels
  /\ lastEvent' = "escape:cancel" =>
       /\ undoStack' # <<>>
       /\ undoStack'[Len(undoStack')] = pixels'
  /\ (lastEvent = "escape:cancel" /\ lastEvent' \in UndoEvents) =>
       /\ lastEvent' = "undo"
       /\ pixels' = pixels
       /\ Len(undoStack') = Len(undoStack) - 1

C32_EscapeKeepsHistory == [][C32_Step]_vars

\* A pencil dot, then a floating block cancelled with Escape: the newest snapshot
\* equals the buffer with the dot, the oldest is the empty canvas.
C32_Witness ==
  /\ lastEvent = "escape:cancel"
  /\ selectionClipboard # Null
  /\ Len(undoStack) >= 2
  /\ undoStack[Len(undoStack)] = pixels
  /\ undoStack[1] # pixels

\* ---------------------------------------------------------------- C33
\* C33: a paste with a clipboard never ends on the out-of-canvas path: it
\* creates a floating block whose origin is a cell of the canvas and whose
\* width and height are at least 1 and end inside the canvas, also after the
\* canvas became smaller than the copied block or its source origin.
C33_Step ==
  (selectionClipboard # Null /\ lastEvent' \in PasteEvents) =>
    /\ lastEvent' = "paste"
    /\ floatingPaste' # Null
    /\ InBounds(Footprint(Val(floatingPaste')), canvasSize)

C33_PasteAlwaysLands == [][C33_Step]_vars

\* ---------------------------------------------------------------- C34
\* Presses on the canvas that are not a select-tool press inside the selection.
DismissingPresses == {"down:draw", "down:fill", "down:fillNone", "down:select"}

\* C34: with a block floating, a pencil, eraser or fill press, or a select
\* press outside the selection, drops the block without restoring anything:
\* the composited pixels stay (but for what the press itself paints), the tool
\* stays, and an Escape pressed next cancels nothing.
C34_Step ==
  /\ (floatingPaste # Null /\ lastEvent' \in DownEvents \ {"down:outside"}) =>
       IF tool = "select" /\ pointInSelection(Val(pointer'), selection)
       THEN lastEvent' = "down:continue"
       ELSE /\ lastEvent' \in DismissingPresses
            /\ floatingPaste' = Null
            /\ tool' = tool
            /\ lastEvent' \in {"down:select", "down:fillNone"} => pixels' = pixels
            /\ lastEvent' = "down:draw" =>
                 /\ pixels'.len = pixels.len
                 /\ \A i \in DOMAIN pixels.px \cup DOMAIN pixels'.px :
                      CellOf(i, canvasSize) # Val(pointer') =>
                        ReadPx(pixels', i) = ReadPx(pixels, i)
            /\ lastEvent' = "down:fill" =>
                 \A region \in {FillRegion({Val(pointer')}, {}, pixels,
                                           PixelAt(Val(pointer')), selection, canvasSize)} :
                   \A i \in DOMAIN pixels.px \cup DOMAIN pixels'.px :
                     CellOf(i, canvasSize) \notin region =>
                       ReadPx(pixels', i) = ReadPx(pixels, i)
  /\ (lastEvent \in DismissingPresses /\ hadFloat /\ lastEvent' \in EscapeEvents) =>
       /\ lastEvent' # "escape:cancel"
       /\ pixels' = pixels
       /\ tool' = tool

C34_PressDismissesFloat == [][C34_Step]_vars

\* A select press outside the selection dismissed a block that had been
\* moved: the buffer still shows the block where it was left.
C34_Witness ==
  /\ lastEvent = "down:select"
  /\ hadFloat
  /\ floatingPaste = Null
  /\ undoStack # <<>>
  /\ undoStack[Len(undoStack)] = pixels
  /\ DOMAIN pixels.px # {}

\* ---------------------------------------------------------------- C35
\* Events of a drag of a block that is already floating.
DragEvents == {"down:continue", "move:float", "up:placed"}

\* What a floating block keeps for the whole of its life.
FloatKept(f) ==
  [pixels |-> f.pixels, width |-> f.width, height |-> f.height,
   basePixels |-> f.basePixels, restorePixels |-> f.restorePixels,
   restoreSelection |-> f.restoreSelection, restoreTool |-> f.restoreTool]

\* C35: a select press inside the selection of a floating block continues
\* moving the same block: nothing is pushed and the block and its restore
\* data stay; no event of a drag pushes a snapshot; a drag that moves the
\* block shows the base pixels wherever the block no longer is; and Escape
\* after a drag restores what the paste or lift recorded.
C35_Step ==
  /\ (floatingPaste # Null /\ tool = "select"
        /\ lastEvent' \in DownEvents \ {"down:outside"}
        /\ pointInSelection(Val(pointer'), selection)) =>
       /\ lastEvent' = "down:continue"
       /\ undoStack' = undoStack
       /\ floatingPaste' = floatingPaste
       /\ pixels' = pixels /\ selection' = selection /\ tool' = tool
  /\ (floatingPaste # Null /\ lastEvent' \in DragEvents) =>
       /\ floatingPaste' # Null
       /\ FloatKept(Val(floatingPaste')) = FloatKept(Val(floatingPaste))
       /\ undoStack' = undoStack
       /\ floatingPaste' # floatingPaste =>
            /\ lastEvent' = "move:float"
            /\ pixels' = FloatComposite(Val(floatingPaste'))
            /\ SameOutside(pixels', Val(floatingPaste).basePixels,
                           Some(Footprint(Val(floatingPaste'))), canvasSize)
  /\ (floatingPaste # Null /\ lastEvent \in DragEvents /\ lastEvent' \in EscapeEvents) =>
       /\ lastEvent' = "escape:cancel"
       /\ pixels' = Val(floatingPaste).restorePixels
       /\ selection' = Val(floatingPaste).restoreSelection
       /\ tool' = Val(floatingPaste).restoreTool
       /\ floatingPaste' = Null
       /\ undoStack' = undoStack

C35_ContinueKeepsFloat == [][C35_Step]_vars

\* A second drag has started on a block that an earlier drag moved away from
\* the place where it was pasted or lifted.
C35_Witness ==
  /\ lastEvent = "down:continue"
  /\ floatingPaste # Null
  /\ Footprint(Val(floatingPaste)) = Val(selection)
  /\ Val(floatingPaste).restoreSelection # selection
  /\ Val(floatingPaste).restorePixels # pixels

\* ---------------------------------------------------------------- C36
\* Events of a select-tool gesture that changes nothing but the selection.
SelectOnlyEvents == {"down:select", "move:select", "up", "up:tile", "up:deselect"}

\* C36: a snapshot is pushed only by an action that changes the buffer (a
\* pencil or eraser press, a fill that changes something, clear, delete,
\* paste, the lift that starts a floating move); a select-tool gesture that
\* only changes the selection leaves the undo history as it is.
C36_Step ==
  /\ (undoStack' # undoStack /\ undoStack' = Pushed(undoStack, pixels)) =>
       lastEvent' \in MutatingEvents
  /\ lastEvent' \in SelectOnlyEvents => undoStack' = undoStack

C36_SelectLeavesHistory == [][C36_Step]_vars

\* ---------------------------------------------------------------- C37
\* C37: with no floating block pending, a buffer that differs from the buffer
\* of the last successful save or load, or of the start, is marked unsaved; so
\* also when a pasted or moved block was left in place without Enter.
C37_DirtyFlagSound ==
  (floatingPaste = Null /\ pixels # savedPixels) => hasUnsavedChanges

\* ---------------------------------------------------------------- C38
\* C38: when the buffer was modified between the capture of the save payload
\* and the host's answer, the document is still marked unsaved after the save
\* completes: the flag is cleared only when the payload equals the live buffer.
C38_Step ==
  (lastEvent' = "save:saved" /\ pixels # Val(saveRequest).pixels) =>
    hasUnsavedChanges'

C38_EditsDuringSaveStayDirty == [][C38_Step]_vars

\* ---------------------------------------------------------------- C39
\* TRUE when the user's answers stop a load of a document with unsaved changes.
LoadRefused(resp) ==
  \/ resp.confirm = "cancel"
  \/ resp.confirm = "save-open" /\ resp.save \in {"canceled", "failed"}

\* C39: a load started with unsaved changes replaces the document only after
\* the answer discard, or after save-then-open with a save that succeeded; on
\* cancel, or when that save is cancelled or fails, the load stops before
\* openPng and leaves pixels, canvas size, selection and undo history (and the
\* unsaved mark) as they were.
C39_Step ==
  (hasUnsavedChanges /\ lastEvent' \in LoadEvents) =>
    /\ LoadRefused(Val(opened')) =>
         /\ lastEvent' = "load:aborted"
         /\ Document' = Document
         /\ hasUnsavedChanges'
    /\ lastEvent' = "load:aborted" => LoadRefused(Val(opened'))
    /\ Document' # Document =>
         /\ lastEvent' = "load"
         /\ \/ Val(opened').confirm = "discard"
            \/ Val(opened').confirm = "save-open" /\ Val(opened').save = "saved"

C39_UnsavedGuardsLoad == [][C39_Step]_vars

\* A load stopped because the save that goes first failed, with a painted
\* pixel, a snapshot in the history and the unsaved mark still there.
C39_Witness ==
  /\ lastEvent = "load:aborted"
  /\ hasUnsavedChanges
  /\ opened # Null
  /\ Val(opened).confirm = "save-open"
  /\ Val(opened).save = "failed"
  /\ Val(opened).open = "ok"
  /\ undoStack # <<>>
  /\ DOMAIN pixels.px # {}

\* ---------------------------------------------------------------- C40
MoveEvents == {"move:draw", "move:select", "move:float", "move:idle", "move:noStart"}

\* C40: after Escape cancelled a floating move with the pointer still
\* pressed, no pointer move of that gesture, up to the release, changes the
\* restored buffer or the restored selection, whatever tool was restored.
C40_Step ==
  (cancelled /\ lastEvent' \in MoveEvents) =>
    /\ pixels' = pixels
    /\ selection' = selection

C40_CancelEndsGesture == [][C40_Step]_vars

====
